---- MODULE Spec2Model ----
(***************************************************************************)
(* A model of django-restless-4: the Endpoint request pipeline             *)
(* (restless/views.py), the response and error types (restless/http.py)    *)
(* and the model serializer (restless/models.py, restless/json.py).        *)
(*                                                                         *)
(* Python strings are TLA+ strings; str.split, str.lower, str.startswith   *)
(* and friends are computed on them character by character.  Byte strings  *)
(* are written as their Python literal without the b'' quotes.  Library    *)
(* functions whose algorithm is not part of this repository (codecs,       *)
(* json.loads, base64, the auth backend) are given by their value on the   *)
(* inputs the model draws.                                                 *)
(***************************************************************************)
EXTENDS Integers, Sequences, FiniteSets, TLC

\* Largest page number drawn for the ?page= query parameter.
MaxPage == 1

-----------------------------------------------------------------------------
(* Python str operations *)

\* Index of the first occurrence of the one-character string c in s, 0 if none.
Find(s, c) ==
    IF \E i \in 1..Len(s) : SubSeq(s, i, i) = c
    THEN CHOOSE i \in 1..Len(s) :
            /\ SubSeq(s, i, i) = c
            /\ \A j \in 1..(i - 1) : SubSeq(s, j, j) # c
    ELSE 0

\* c in s
HasChar(s, c) == Find(s, c) # 0

\* s.split(c): every piece between occurrences of c, empty pieces kept.
RECURSIVE SplitOn(_, _)
SplitOn(s, c) ==
    IF Find(s, c) = 0 THEN <<s>>
    ELSE <<SubSeq(s, 1, Find(s, c) - 1)>>
            \o SplitOn(SubSeq(s, Find(s, c) + 1, Len(s)), c)

\* s.split(c, 1): at most one split.
SplitOnce(s, c) ==
    IF Find(s, c) = 0 THEN <<s>>
    ELSE <<SubSeq(s, 1, Find(s, c) - 1), SubSeq(s, Find(s, c) + 1, Len(s))>>

\* s.split(): the runs of non-blank characters.
SplitWs(s) == SelectSeq(SplitOn(s, " "), LAMBDA t : t # "")

\* s.startswith(p)
StartsWith(s, p) == Len(s) >= Len(p) /\ SubSeq(s, 1, Len(p)) = p

\* p in s, for strings
Contains(s, p) ==
    \E i \in 1..(Len(s) - Len(p) + 1) : SubSeq(s, i, i + Len(p) - 1) = p

UpperChars == "ABCDEFGHIJKLMNOPQRSTUVWXYZ"
LowerChars == "abcdefghijklmnopqrstuvwxyz"

LowerChar(c) ==
    IF HasChar(UpperChars, c)
    THEN SubSeq(LowerChars, Find(UpperChars, c), Find(UpperChars, c))
    ELSE c

UpperChar(c) ==
    IF HasChar(LowerChars, c)
    THEN SubSeq(UpperChars, Find(LowerChars, c), Find(LowerChars, c))
    ELSE c

\* s.lower()
RECURSIVE Lower(_)
Lower(s) ==
    IF s = "" THEN ""
    ELSE LowerChar(SubSeq(s, 1, 1)) \o Lower(SubSeq(s, 2, Len(s)))

\* s.capitalize()
\* str.endswith(p)
EndsWith(s, p) == Len(s) >= Len(p) /\ SubSeq(s, Len(s) - Len(p) + 1, Len(s)) = p

\* Whether int(s) accepts the text: here, digits only.
IsDigits(s) ==
    /\ Len(s) > 0
    /\ \A i \in 1..Len(s) : HasChar("0123456789", SubSeq(s, i, i))

Capitalize(s) ==
    IF s = "" THEN ""
    ELSE UpperChar(SubSeq(s, 1, 1)) \o Lower(SubSeq(s, 2, Len(s)))

-----------------------------------------------------------------------------
(* Python values.  t is the type, s the text of a scalar, kv the items of  *)
(* a dict in insertion order (string keys, string values).                 *)

PyVal(t, s, kv) == [t |-> t, s |-> s, kv |-> kv]
PyNone == PyVal("NoneType", "", <<>>)
PyStr(s) == PyVal("str", s, <<>>)
PyInt(s) == PyVal("int", s, <<>>)
PyBytes(s) == PyVal("bytes", s, <<>>)
PyDict(kv) == PyVal("dict", "", kv)
\* A list or a set, kept with its JSON text (a set has none).
PyList(s) == PyVal("list", s, <<>>)
PySet == PyVal("set", "", <<>>)

\* d[k] = v on an insertion-ordered dict: an existing key keeps its place.
DictSet(kv, k, v) ==
    IF \E i \in 1..Len(kv) : kv[i][1] = k
    THEN [i \in 1..Len(kv) |-> IF kv[i][1] = k THEN <<k, v>> ELSE kv[i]]
    ELSE Append(kv, <<k, v>>)

\* dict(pairs)
RECURSIVE DictOf(_)
DictOf(pairs) ==
    IF pairs = <<>> THEN <<>>
    ELSE DictSet(DictOf(SubSeq(pairs, 1, Len(pairs) - 1)),
                 pairs[Len(pairs)][1], pairs[Len(pairs)][2])

DictHas(kv, k) == \E i \in 1..Len(kv) : kv[i][1] = k

\* d.get(k, default)
DictGet(kv, k, default) ==
    IF DictHas(kv, k)
    THEN kv[CHOOSE i \in 1..Len(kv) : kv[i][1] = k][2]
    ELSE default

DictKeys(kv) == {kv[i][1] : i \in 1..Len(kv)}

\* The value a missing key gives with d.get(k): None, written as this marker.
Absent == "<None>"

-----------------------------------------------------------------------------
(* Library functions, by their value on the inputs the model draws *)

\* Request bodies (bytes).
BodyCreds == "{\"username\": \"alice\", \"password\": \"pw\"}"
BodyBadJson == "{bad"
BodyList == "[1]"
BodyLatin1 == "\"\\xe9\""
BodyUtf8 == "\"\\xc3\\xa9\""
BodyForm == "username=alice&password=pw"
BodyEmptyObject == "{}"
BodyTitle == "{\"title\": \"New\"}"
BodyBook == "{\"isbn\": \"2\", \"title\": \"New\"}"
BodyAuthorId == "{\"author_id\": \"1\"}"
BodyAuthor == "{\"author\": \"1\"}"
BodyTitleId == "{\"title_id\": \"x\"}"
BodyUnknown == "{\"bogus\": \"x\", \"title\": \"New\"}"

\* A library call's outcome: a value, or the exception it raises.
Returned(v) == [ok |-> TRUE, val |-> v, cls |-> "", msg |-> ""]
Raised(cls, msg) == [ok |-> FALSE, val |-> PyNone, cls |-> cls, msg |-> msg]

\* bytes.decode(charset); the text is returned as a str value.
Decode(body, charset) ==
    CASE Lower(charset) \notin {"utf-8", "latin-1"} ->
            Raised("LookupError", "unknown encoding: " \o charset)
      [] body = BodyLatin1 /\ Lower(charset) = "utf-8" ->
            Raised("UnicodeDecodeError",
                   "'utf-8' codec can't decode byte 0xe9 in position 1: invalid continuation byte")
      [] body = BodyLatin1 /\ Lower(charset) = "latin-1" -> Returned(PyStr("\"\\u00e9\""))
      [] body = BodyUtf8 /\ Lower(charset) = "utf-8" -> Returned(PyStr("\"\\u00e9\""))
      [] body = BodyUtf8 /\ Lower(charset) = "latin-1" ->
            Returned(PyStr("\"\\u00c3\\u00a9\""))
      [] OTHER -> Returned(PyStr(body))

\* json.loads(text)
JsonLoads(text) ==
    CASE text = BodyCreds ->
            Returned(PyDict(<<<<"username", "alice">>, <<"password", "pw">>>>))
      [] text = BodyList -> Returned(PyList("[1]"))
      [] text = BodyEmptyObject -> Returned(PyDict(<<>>))
      [] text = BodyTitle -> Returned(PyDict(<<<<"title", "New">>>>))
      [] text = BodyBook -> Returned(PyDict(<<<<"isbn", "2">>, <<"title", "New">>>>))
      [] text = BodyAuthorId -> Returned(PyDict(<<<<"author_id", "1">>>>))
      [] text = BodyAuthor -> Returned(PyDict(<<<<"author", "1">>>>))
      [] text = BodyTitleId -> Returned(PyDict(<<<<"title_id", "x">>>>))
      [] text = BodyUnknown -> Returned(PyDict(<<<<"bogus", "x">>, <<"title", "New">>>>))
      [] text = "\"\\u00e9\"" -> Returned(PyStr("\\u00e9"))
      [] text = "\"\\u00c3\\u00a9\"" -> Returned(PyStr("\\u00c3\\u00a9"))
      [] text = BodyBadJson ->
            Raised("JSONDecodeError",
                   "Expecting property name enclosed in double quotes: line 1 column 2 (char 1)")
      [] OTHER -> Raised("JSONDecodeError", "Expecting value: line 1 column 1 (char 0)")

\* Whether json.dumps(v, cls=DjangoJSONEncoder) can encode v.
JsonSerializable(v) == v.t \in {"NoneType", "str", "int", "list", "dict"}

RECURSIVE DumpItems(_)
DumpItems(kv) ==
    IF kv = <<>> THEN ""
    ELSE (IF Len(kv) = 1 THEN "" ELSE DumpItems(SubSeq(kv, 1, Len(kv) - 1)) \o ", ")
            \o "\"" \o kv[Len(kv)][1] \o "\": \"" \o kv[Len(kv)][2] \o "\""

\* json.dumps(v, cls=DjangoJSONEncoder), for a v it can encode.  A dict or
\* list that holds values rather than strings is kept with its JSON text.
JsonDumps(v) ==
    CASE v.t = "NoneType" -> "null"
      [] v.t = "str" -> "\"" \o v.s \o "\""
      [] v.t = "dict" /\ v.s = "" -> "{" \o DumpItems(v.kv) \o "}"
      [] OTHER -> v.s

\* The JSON text of a value whose dicts and lists hold values.
RECURSIVE JsonText(_)
RECURSIVE JsonTextItems(_, _)
JsonTextItems(kv, keyed) ==
    IF kv = <<>> THEN ""
    ELSE (IF Len(kv) = 1 THEN ""
          ELSE JsonTextItems(SubSeq(kv, 1, Len(kv) - 1), keyed) \o ", ")
         \o (IF keyed THEN "\"" \o kv[Len(kv)][1] \o "\": " ELSE "")
         \o JsonText(kv[Len(kv)][2])

JsonText(v) ==
    CASE v.t = "NoneType" -> "null"
      [] v.t = "str" -> "\"" \o v.s \o "\""
      [] v.t = "dict" -> "{" \o JsonTextItems(v.kv, TRUE) \o "}"
      [] v.t = "list" -> "[" \o JsonTextItems(v.kv, FALSE) \o "]"
      [] OTHER -> v.s

\* Such a value, with its JSON text.
WithJsonText(v) == [v EXCEPT !.s = IF v.t \in {"dict", "list"} THEN JsonText(v) ELSE v.s]

\* base64.b64decode(payload): the decoded bytes, or binascii.Error.
B64Decode(payload) ==
    CASE payload = "YWxpY2U6cHc=" -> Returned(PyBytes("alice:pw"))
      [] payload = "YWxpY2U6YmFk" -> Returned(PyBytes("alice:bad"))
      [] payload = "bWFsbG9yeTpwdzI=" -> Returned(PyBytes("mallory:pw2"))
      [] payload = "bm9jb2xvbg==" -> Returned(PyBytes("nocolon"))
      [] payload = "/zp4" -> Returned(PyBytes("\\xff:x"))
      [] OTHER -> Raised("binascii.Error", "Incorrect padding")

\* smart_str(bytes): UTF-8 decoding, DjangoUnicodeDecodeError on bytes that are not.
SmartStr(b) ==
    IF HasChar(b, "\\") THEN Raised("DjangoUnicodeDecodeError", "invalid start byte")
    ELSE Returned(PyStr(b))

\* The user table of the auth backend: name, password, is_active.
Users ==
    {[name |-> "alice", password |-> "pw", is_active |-> TRUE],
     [name |-> "mallory", password |-> "pw2", is_active |-> FALSE]}

\* request.user before authentication.
AnonymousUser == [name |-> "", password |-> "", is_active |-> FALSE]
NoUser == [name |-> "<None>", password |-> "", is_active |-> FALSE]

\* auth.authenticate(username=, password=): the user, or None (NoUser).
AuthBackend(username, password) ==
    IF \E u \in Users : u.name = username /\ u.password = password
    THEN CHOOSE u \in Users : u.name = username /\ u.password = password
    ELSE NoUser

\* int(text) of a query parameter: defined on decimal numerals only.
IsInt(text) == \E n \in 0..(MaxPage + 1) : ToString(n) = text
IntOf(text) == CHOOSE n \in 0..(MaxPage + 1) : ToString(n) = text

-----------------------------------------------------------------------------
(* restless/http.py *)

\* An HTTP response.  base is the Django class it is an instance of:
\* HttpResponse, or StreamingHttpResponse, which is not an HttpResponse.
Response(cls, base, status, ctype, body, hdrs) ==
    [cls |-> cls, base |-> base, status |-> status, ctype |-> ctype,
     body |-> body, hdrs |-> hdrs]

NoResponse == Response("", "", 0, "", "", <<>>)

JSONResponse(cls, status, data) ==
    Response(cls, "HttpResponse", status, "application/json; charset=utf-8",
             JsonDumps(data), <<>>)

JSONErrorResponse(cls, status, reason, additional_data) ==
    JSONResponse(cls, status,
                 PyDict(DictOf(<<<<"error", reason>>>> \o additional_data)))

Http200(data) == JSONResponse("Http200", 200, data)
Http201(data) == JSONResponse("Http201", 201, data)
Http400(reason) == JSONErrorResponse("Http400", 400, reason, <<>>)
Http403(reason) == JSONErrorResponse("Http403", 403, reason, <<>>)
Http500(reason, additional_data) ==
    JSONErrorResponse("Http500", 500, reason, additional_data)

Http401(typ, realm, msg) ==
    Response("Http401", "HttpResponse", 401, "text/html; charset=utf-8",
             IF Lower(typ) # "basic" THEN "Invalid authorization header" ELSE msg,
             <<<<"WWW-Authenticate", Capitalize(typ) \o " realm=\"" \o realm \o "\"">>>>)

\* An exception in flight; an HttpError carries its response.
Exc(cls, text) == [cls |-> cls, text |-> text, response |-> NoResponse]
NoExc == Exc("", "")

\* Mutant: the response keeps the status of JSONErrorResponse.
HttpError_StatusNotSet(code, reason, additional_data) ==
    [cls |-> "HttpError", text |-> reason,
     response |-> JSONErrorResponse("JSONErrorResponse", 200, reason, additional_data)]

\* HttpError(code, reason, **additional_data): the response is built when
\* the exception is, then given the code.
HttpError(code, reason, additional_data) ==
    [cls |-> "HttpError", text |-> reason,
     response |-> JSONErrorResponse("JSONErrorResponse", code, reason, additional_data)]

-----------------------------------------------------------------------------
(* The inputs: endpoint classes, settings and requests *)

\* An Endpoint subclass: its authentication mixin (auth), whether its method
\* handlers are wrapped in login_required (guarded), and the HTTP methods it
\* defines a handler for.
EndpointClass(name, auth, guarded, handlers) ==
    [name |-> name, auth |-> auth, guarded |-> guarded, handlers |-> handlers]

Endpoints ==
    {EndpointClass("Endpoint", "none", FALSE, {"GET", "POST", "PUT"}),
     EndpointClass("GuardedEndpoint", "none", TRUE, {"GET"}),
     EndpointClass("AuthenticateEndpoint", "userpass", TRUE, {"GET", "POST"}),
     EndpointClass("TestBasicAuth", "basic", TRUE, {"GET"}),
     EndpointClass("TestCustomAuthMethod", "custom", FALSE, {"GET"})}

\* isinstance(self, AbstractAuthMixin)
IsAuthMixin(cls) == cls.auth # "none"

Methods == {"GET", "POST", "PUT"}

ContentTypes ==
    {"application/json",
     "application/json; charset=latin-1",
     "application/json; charset=bogus",
     "application/x-www-form-urlencoded",
     "multipart/form-data; boundary=x",
     "multipart/form-data-x",
     "text/plain"}

\* A QueryDict: keys in order, each with the list of its values.
QueryDict(username, password) ==
    <<<<"username", username>>, <<"password", password>>>>

\* Mutant: the first value of each key.
Items_FirstValue(qd) == [i \in 1..Len(qd) |-> <<qd[i][1], qd[i][2][1]>>]

\* QueryDict.items(): each key with the last of its values.
Items(qd) == [i \in 1..Len(qd) |-> <<qd[i][1], qd[i][2][Len(qd[i][2])]>>]

\* The body of a request with the request.POST the framework parsed from it.
Payloads ==
    {[body |-> b, POST |-> <<>>] :
        b \in {BodyCreds, BodyBadJson, BodyList, BodyLatin1, BodyUtf8}}
    \cup {[body |-> BodyForm, POST |-> QueryDict(<<"alice">>, <<"pw">>)],
          [body |-> "username=mallory&username=alice&password=pw",
           POST |-> QueryDict(<<"mallory", "alice">>, <<"pw">>)]}

\* The username and password query parameters.
QueryCredentials ==
    {<<>>,
     QueryDict(<<"alice">>, <<"pw">>),
     QueryDict(<<"alice">>, <<"bad">>),
     QueryDict(<<"mallory">>, <<"pw2">>)}

\* The page query parameter.
QueryPages ==
    {<<>>, <<<<"page", <<"abc">>>>>>}
    \cup {<<<<"page", <<ToString(n)>>>>>> : n \in 1..MaxPage}

\* The Authorization header; NoHeader when the request has none.
NoHeader == "<none>"
AuthorizationHeaders ==
    {NoHeader, "", "Basic", "Digest abc",
     "Basic YQ", "Basic /zp4", "Basic bm9jb2xvbg==",
     "Basic YWxpY2U6cHc=", "basic YWxpY2U6cHc=",
     "Basic YWxpY2U6YmFk", "Basic bWFsbG9yeTpwdzI="}

\* request.user as the session middleware left it.
SessionUsers == {AnonymousUser} \cup {u \in Users : u.is_active}

NewRequest(method, content_type, payload, GET, authorization, user) ==
    [method |-> method, content_type |-> content_type,
     body |-> payload.body, POST |-> payload.POST, GET |-> GET,
     authorization |-> authorization, user |-> user,
     params |-> <<>>, data |-> PyNone, raw_data |-> "", page |-> 0]

\* The requests drawn for an endpoint class.  An input that no code of the
\* class reads is left at its default: the Authorization header is read by
\* BasicHttpAuthMixin alone, the username and password query parameters by
\* UsernamePasswordAuthMixin alone, and the session's user only where no
\* mixin replaces it.
Requests(cls) ==
    {NewRequest(m, ct, pl, qc \o qp, az, u) :
        m \in Methods, ct \in ContentTypes, pl \in Payloads,
        qc \in IF cls.auth = "userpass" THEN QueryCredentials ELSE {<<>>},
        qp \in QueryPages,
        az \in IF cls.auth = "basic" THEN AuthorizationHeaders ELSE {NoHeader},
        u \in IF cls.auth \in {"none", "custom"} THEN SessionUsers ELSE {AnonymousUser}}

-----------------------------------------------------------------------------
(* restless/views.py: the pieces of Endpoint.dispatch *)

\* _parse_content_type(content_type): the pair (ct, params), params a dict.
ParseContentType(content_type) ==
    IF HasChar(content_type, ";")
    THEN LET parts == SplitOnce(content_type, ";")
             pairs == [i \in 1..Len(SplitWs(parts[2])) |->
                          SplitOn(SplitWs(parts[2])[i], "=")]
         IN  [ct |-> parts[1],
              params |-> IF \A i \in 1..Len(pairs) : Len(pairs[i]) = 2
                         THEN DictOf(pairs)
                         ELSE <<>>]
    ELSE [ct |-> content_type, params |-> <<>>]

\* What a step of dispatch leaves behind: the request as it now is, and the
\* exception it raised (NoExc when it returned).
StepResult(request, exception) == [request |-> request, exc |-> exception]

\* Mutant: a body that cannot be read leaves request.data unset, no error.
ParseJson_NoError(request, charset) ==
    LET text == Decode(request.body, charset)
        loaded == IF text.ok THEN JsonLoads(text.val.s) ELSE text
    IN  StepResult([request EXCEPT !.data = loaded.val], NoExc)

\* The application/json branch of _parse_body.
ParseJson(request, charset) ==
    LET text == Decode(request.body, charset)
        loaded == IF text.ok THEN JsonLoads(text.val.s) ELSE text
    IN  IF loaded.ok
        THEN StepResult([request EXCEPT !.data = loaded.val], NoExc)
        ELSE StepResult(request,
                        HttpError(400, "invalid JSON payload: " \o loaded.msg, <<>>))

\* Endpoint._parse_body(request)
ParseBody(request) ==
    IF request.method \notin {"POST", "PUT", "PATCH"}
    THEN StepResult(request, NoExc)
    ELSE LET parsed == ParseContentType(request.content_type)
         IN  CASE parsed.ct = "application/json" ->
                    ParseJson(request, DictGet(parsed.params, "charset", "utf-8"))
               [] parsed.ct = "application/x-www-form-urlencoded"
                    \/ StartsWith(parsed.ct, "multipart/form-data") ->
                    StepResult([request EXCEPT !.data = PyDict(DictOf(Items(request.POST)))],
                               NoExc)
               [] OTHER ->
                    StepResult([request EXCEPT !.data = PyBytes(request.body)], NoExc)

\* What authenticate(request) did: the value it returned (kind "None" or
\* "response", or "other" for anything else) or the exception it raised
\* (kind "raised"), the request as it left it, and the session's user.
AuthResult(kind, response, exception, request, session) ==
    [kind |-> kind, response |-> response, exc |-> exception,
     request |-> request, session |-> session]

\* UsernamePasswordAuthMixin.authenticate(request)
UsernamePasswordAuthenticate(request, session) ==
    IF request.method = "POST" /\ request.data.t # "dict"
    THEN AuthResult("raised", NoResponse,
                    Exc("AttributeError",
                        "'" \o request.data.t \o "' object has no attribute 'get'"),
                    request, session)
    ELSE LET source == IF request.method = "POST" THEN request.data.kv
                       ELSE request.params
             user == AuthBackend(DictGet(source, "username", Absent),
                                 DictGet(source, "password", Absent))
         IN  IF user = NoUser \/ ~user.is_active
             THEN AuthResult("response", Http401("basic", "api", "Invalid credentials"),
                             NoExc, request, session)
             ELSE AuthResult("None", NoResponse, NoExc,
                             [request EXCEPT !.user = user], user.name)

\* BasicHttpAuthMixin.authenticate(request), from the decoded payload on.
BasicAuthenticateDecoded(request, session, authdata) ==
    LET raw == B64Decode(authdata[2])
        auth_parts == SplitOn(raw.val.s, ":")
        uname == SmartStr(auth_parts[1])
        passwd == SmartStr(auth_parts[2])
        user == AuthBackend(uname.val.s, passwd.val.s)
    IN  CASE ~raw.ok ->
                AuthResult("response", Http401("basic", "api", "Failed to read credentials"),
                           NoExc, request, session)
          [] raw.ok /\ ~uname.ok ->
                AuthResult("response", Http401("basic", "api", "Failed to read credentials"),
                           NoExc, request, session)
          [] raw.ok /\ uname.ok /\ Len(auth_parts) < 2 ->
                AuthResult("raised", NoResponse,
                           Exc("IndexError", "list index out of range"), request, session)
          [] raw.ok /\ uname.ok /\ Len(auth_parts) >= 2 /\ ~passwd.ok ->
                AuthResult("response", Http401("basic", "api", "Failed to read credentials"),
                           NoExc, request, session)
          [] OTHER ->
                IF user = NoUser \/ ~user.is_active
                THEN AuthResult("response", Http401("basic", "api", "Invalid credentials"),
                                NoExc, request, session)
                ELSE AuthResult("None", NoResponse, NoExc,
                                [request EXCEPT !.user = user], session)

\* BasicHttpAuthMixin.authenticate(request)
BasicAuthenticate(request, session) ==
    LET authdata == SplitWs(request.authorization)
    IN  CASE request.authorization = NoHeader ->
                AuthResult("response", Http401("basic", "Restricted Area", "Unauthorized"),
                           NoExc, request, session)
          [] request.authorization # NoHeader /\ authdata = <<>> ->
                AuthResult("raised", NoResponse,
                           Exc("IndexError", "list index out of range"), request, session)
          [] request.authorization # NoHeader /\ authdata # <<>>
                /\ (Len(authdata) # 2 \/ Lower(authdata[1]) # "basic") ->
                AuthResult("response", Http401(authdata[1], "api", "Unauthorized"),
                           NoExc, request, session)
          [] OTHER -> BasicAuthenticateDecoded(request, session, authdata)

\* What an authenticate method written by the application may do
\* (TestCustomAuthMethod.authenticate does the first, second, fourth and fifth).
StreamingResponse ==
    Response("StreamingHttpResponse", "StreamingHttpResponse", 200,
             "text/html; charset=utf-8", "chunks", <<>>)

CustomAuthenticate(request, session) ==
    {AuthResult("None", NoResponse, NoExc, request, session),
     AuthResult("response", Http403("you shall not pass"), NoExc, request, session),
     AuthResult("response", StreamingResponse, NoExc, request, session),
     AuthResult("other", NoResponse, NoExc, request, session),
     AuthResult("raised", NoResponse, HttpError(403, "with exception", <<>>),
                request, session),
     AuthResult("raised", NoResponse, Exc("Exception", "authenticate failed"),
                request, session)}

\* self.authenticate(request), by the mixin of the class: the set of things
\* it may do.
Authenticate(cls, request, session) ==
    CASE cls.auth = "userpass" -> {UsernamePasswordAuthenticate(request, session)}
      [] cls.auth = "basic" -> {BasicAuthenticate(request, session)}
      [] OTHER -> CustomAuthenticate(request, session)

\* Mutant: any response class passes the isinstance test.
IsHttpResponse_AnyResponse(response) ==
    response.base \in {"HttpResponse", "StreamingHttpResponse"}

\* isinstance(auth_response, HttpResponse)
IsHttpResponse(response) == response.base = "HttpResponse"

\* What a handler (or dispatch) hands back: a response, or any other value.
NoResult == [kind |-> "unset", response |-> NoResponse, val |-> PyNone]
ResponseResult(response) == [kind |-> "response", response |-> response, val |-> PyNone]
ValueResult(v) == [kind |-> "value", response |-> NoResponse, val |-> v]

\* What the body of a method handler written by the application may do:
\* return a value or a response, or raise.
HandlerReturns ==
    {ValueResult(PyDict(<<<<"result", "done">>>>)),
     ValueResult(PyStr("OK")),
     ValueResult(PySet),
     ResponseResult(Http201(PyDict(<<<<"id", "1">>>>))),
     ResponseResult(StreamingResponse)}

HandlerRaises ==
    {HttpError(400, "raised error", <<<<"extra_data", "foo">>>>),
     HttpError(409, "conflict", <<<<"error", "taken">>, <<"holder", "ann">>>>),
     Exc("Exception", "I'm being a bad view")}

\* login_required: whether the wrapper lets the request through.
LoginAllowed(request) == request.user # NoUser /\ request.user.is_active

\* View.dispatch of the framework: whether the class has a handler for the
\* method; http_method_not_allowed answers otherwise.
HasHandler(cls, request) == request.method \in cls.handlers

HttpResponseNotAllowed ==
    Response("HttpResponseNotAllowed", "HttpResponse", 405,
             "text/html; charset=utf-8", "", <<>>)

-----------------------------------------------------------------------------
(* restless/models.py and restless/json.py: serialize                      *)
(*                                                                         *)
(* In the values of the serializer kv holds pairs <<name, value>>: the     *)
(* items of a dict, the elements of a list or of a manager (under "0",     *)
(* "1", ...) and the attributes of a model instance, whose s is the name   *)
(* of its model.                                                           *)

PyDecimal(s) == PyVal("Decimal", s, <<>>)
PyDate(s) == PyVal("date", s, <<>>)
PyModel(model, attrs) == PyVal("Model", model, attrs)
PyListOf(items) ==
    PyVal("list", "", [i \in 1..Len(items) |-> <<ToString(i - 1), items[i]>>])
PyManager(name, items) ==
    PyVal("Manager", name, [i \in 1..Len(items) |-> <<ToString(i - 1), items[i]>>])

\* A field of a model: its name and the attribute its column value is under.
Field(name, attname) == [name |-> name, attname |-> attname]

\* obj._meta.concrete_model._meta.local_fields for the models drawn.
LocalFields(obj) ==
    CASE obj.s = "Author" -> <<Field("id", "id"), Field("name", "name")>>
      [] obj.s = "Edition" -> <<Field("id", "id"), Field("year", "year")>>
      [] obj.s = "Category" ->
            <<Field("id", "id"), Field("name", "name"), Field("parent", "parent_id")>>
      [] obj.s = "Book" ->
            <<Field("id", "id"), Field("isbn", "isbn"), Field("title", "title"),
              Field("author", "author_id"), Field("price", "price"),
              Field("published", "published")>>
      [] OTHER -> <<>>

\* fieldmap.get(f, f)
FieldMapGet(obj, f) ==
    IF \E i \in 1..Len(LocalFields(obj)) : LocalFields(obj)[i].name = f
    THEN LocalFields(obj)[CHOOSE i \in 1..Len(LocalFields(obj)) :
                            LocalFields(obj)[i].name = f].attname
    ELSE f

\* getattr(obj, name)
GetAttr(obj, name) ==
    IF DictHas(obj.kv, name)
    THEN Returned(DictGet(obj.kv, name, PyNone))
    ELSE Raised("AttributeError",
                "'" \o obj.s \o "' object has no attribute '" \o name \o "'")

\* str(value); Model.__str__ gives the model's name and the primary key.
StrOf(value) ==
    IF value.t = "Model"
    THEN value.s \o " object (" \o DictGet(value.kv, "id", PyNone).s \o ")"
    ELSE value.s

\* isinstance(value, (datetime.datetime, datetime.date, datetime.time, Decimal))
IsTemporalOrDecimal(value) == value.t \in {"datetime", "date", "time", "Decimal"}

\* '{}'.format(value)
Format(value) == PyStr(StrOf(value))

\* Mutant: force_str without strings_only.
ForceStr_AllToStr(value) ==
    IF value.t = "NoneType" THEN PyStr("None") ELSE PyStr(StrOf(value))

\* force_str(value, strings_only=True): None, numbers and temporal values
\* are left as they are, anything else becomes a str.
ForceStr(value) ==
    IF value.t \in {"NoneType", "int", "float", "Decimal", "datetime", "date", "time", "str"}
    THEN value
    ELSE PyStr(StrOf(value))

\* Attribute descriptions: a string, a tuple (k, function), a tuple
\* (k, dict(fields=[...])) and something that is neither tuple nor string.
Name(k) == [tag |-> "str", k |-> k, fields |-> <<>>]
Computed(k) == [tag |-> "callable", k |-> k, fields |-> <<>>]
Nested(k, fields) == [tag |-> "dict", k |-> k, fields |-> fields]
NotADescription == [tag |-> "other", k |-> "", fields |-> <<>>]

\* The function of a description (k, function), called with the object.
CallFunction(k, obj) == PyStr(k \o " of " \o StrOf(obj))

\* The keyword arguments of serialize; no fields is <<>>, no fixup is "",
\* and a fixup is flatten(attname), written as its attname.
Options(fields, include, exclude, fixup) ==
    [fields |-> fields, include |-> include, exclude |-> exclude, fixup |-> fixup,
     include_is_None |-> FALSE]
NoOptions == Options(<<>>, <<>>, <<>>, "")

\* serialize(..., include=None): None given in the place of a list.
IncludeNone(opts) == [opts EXCEPT !.include = <<>>, !.include_is_None = TRUE]

\* The list of descriptions serialize_model walks: fields or else the local
\* fields, without the excluded ones, then the tuples and strings of include.
FieldList(obj, opts) ==
    LET defaults == [i \in 1..Len(LocalFields(obj)) |-> Name(LocalFields(obj)[i].name)]
        fields == IF opts.fields # <<>> THEN opts.fields ELSE defaults
        excluded(f) == f.tag = "str" /\ \E i \in 1..Len(opts.exclude) : opts.exclude[i] = f.k
    IN  SelectSeq(fields, LAMBDA f : ~excluded(f))
        \o SelectSeq(opts.include, LAMBDA i : i.tag \in {"str", "callable", "dict"})

\* for k, v in sub.items(): data[k] = v
RECURSIVE DictUpdate(_, _)
DictUpdate(kv, items) ==
    IF items = <<>> THEN kv
    ELSE DictUpdate(DictSet(kv, items[1][1], items[1][2]), Tail(items))

\* del data[k]
DictDel(kv, k) == SelectSeq(kv, LAMBDA item : item[1] # k)

\* Mutant: the fixup leaves the sub-dict where it is.
Flatten_NoDel(attname, data) ==
    IF ~DictHas(data, attname)
    THEN Raised("KeyError", "'" \o attname \o "'")
    ELSE IF DictGet(data, attname, PyNone).t # "dict"
    THEN Raised("AttributeError",
                "'" \o DictGet(data, attname, PyNone).t \o "' object has no attribute 'items'")
    ELSE Returned(PyDict(DictUpdate(data, DictGet(data, attname, PyNone).kv)))

\* The fixup flatten(attname) returns, applied to data.
Flatten(attname, data) ==
    IF ~DictHas(data, attname)
    THEN Raised("KeyError", "'" \o attname \o "'")
    ELSE IF DictGet(data, attname, PyNone).t # "dict"
    THEN Raised("AttributeError",
                "'" \o DictGet(data, attname, PyNone).t \o "' object has no attribute 'items'")
    ELSE Returned(PyDict(DictDel(
            DictUpdate(data, DictGet(data, attname, PyNone).kv), attname)))

RECURSIVE Serialize(_, _, _)
RECURSIVE SerializeItems(_, _, _, _)
RECURSIVE ModelsLoop(_, _, _)
RECURSIVE JsonLoop(_, _, _)

\* The loop over fields of serialize_model in models.py.  getvalueof(f) comes
\* first: for a tuple (k, function) it ends in getattr(obj, f) with f the
\* tuple, for a tuple (k, dict) already fieldmap.get(f, f) cannot hash f.
ModelsLoop(obj, fields, data) ==
    IF fields = <<>> THEN Returned(PyDict(data))
    ELSE IF Head(fields).tag = "dict"
    THEN Raised("TypeError", "unhashable type: 'dict'")
    ELSE IF Head(fields).tag # "str"
    THEN Raised("TypeError", "attribute name must be string, not 'tuple'")
    ELSE LET field_real_name == FieldMapGet(obj, Head(fields).k)
             value == GetAttr(obj, field_real_name)
         IN  IF ~value.ok THEN value
             ELSE IF IsTemporalOrDecimal(value.val)
             THEN ModelsLoop(obj, Tail(fields),
                             DictSet(data, field_real_name, Format(value.val)))
             ELSE ModelsLoop(obj, Tail(fields),
                             DictSet(data, field_real_name, ForceStr(value.val)))

\* The loop over fields of serialize_model in json.py.
JsonLoop(obj, fields, data) ==
    IF fields = <<>> THEN Returned(PyDict(data))
    ELSE LET f == Head(fields)
             v == GetAttr(obj, f.k)
             sub == Serialize("json", v.val,
                        Options([i \in 1..Len(f.fields) |-> Name(f.fields[i])],
                                <<>>, <<>>, ""))
         IN  CASE f.tag = "callable" ->
                    JsonLoop(obj, Tail(fields), DictSet(data, f.k, CallFunction(f.k, obj)))
               [] f.tag = "dict" ->
                    IF ~v.ok THEN v
                    ELSE IF ~sub.ok THEN sub
                    ELSE JsonLoop(obj, Tail(fields), DictSet(data, f.k, sub.val))
               [] OTHER ->
                    IF ~v.ok THEN v
                    ELSE IF IsTemporalOrDecimal(v.val)
                    THEN JsonLoop(obj, Tail(fields), DictSet(data, f.k, Format(v.val)))
                    ELSE JsonLoop(obj, Tail(fields), DictSet(data, f.k, ForceStr(v.val)))

\* serialize_model of either module: the field list, the loop, then the
\* fixup.  json.py reads include=None as no include; models.py iterates over
\* include as it is given.
SerializeModel(module, obj, opts) ==
    LET data == IF module = "models"
                THEN ModelsLoop(obj, FieldList(obj, opts), <<>>)
                ELSE JsonLoop(obj, FieldList(obj, opts), <<>>)
    IN  IF module = "models" /\ opts.include_is_None
        THEN Raised("TypeError", "'NoneType' object is not iterable")
        ELSE IF data.ok /\ opts.fixup # ""
        THEN Flatten(opts.fixup, data.val.kv)
        ELSE data

\* [subs(i) for i in src] and {k: subs(v) for k, v in src.items()}
SerializeItems(module, items, opts, done) ==
    IF items = <<>> THEN Returned(PyDict(done))
    ELSE IF ~Serialize(module, items[1][2], opts).ok
    THEN Serialize(module, items[1][2], opts)
    ELSE SerializeItems(module, Tail(items), opts,
            Append(done, <<items[1][1], Serialize(module, items[1][2], opts).val>>))

\* serialize(src, fields, include, exclude, fixup) with no query_filter.
Serialize(module, src, opts) ==
    CASE src.t \in {"Manager", "list", "set"} ->
            IF SerializeItems(module, src.kv, opts, <<>>).ok
            THEN Returned(PyVal("list", "", SerializeItems(module, src.kv, opts, <<>>).val.kv))
            ELSE SerializeItems(module, src.kv, opts, <<>>)
      [] src.t = "dict" -> SerializeItems(module, src.kv, opts, <<>>)
      [] src.t = "Model" -> SerializeModel(module, src, opts)
      [] OTHER -> Returned(src)

\* The records drawn.
AuthorAnn == PyModel("Author", <<<<"id", PyInt("1")>>, <<"name", PyStr("Ann")>>>>)

FirstEdition == PyModel("Edition", <<<<"id", PyInt("3")>>, <<"year", PyInt("1965")>>>>)

BookRecord(id, isbn, title, author, price) ==
    PyModel("Book",
        <<<<"id", PyInt(id)>>, <<"isbn", PyInt(isbn)>>, <<"title", PyStr(title)>>,
          <<"author", author>>,
          <<"author_id", IF author = PyNone THEN PyNone ELSE DictGet(author.kv, "id", PyNone)>>,
          <<"price", price>>,
          <<"published", PyDate("2020-01-02")>>,
          <<"editions", PyManager("testapp.Edition.None", <<FirstEdition>>)>>>>)

Book(title, author, price) == BookRecord("7", "111", title, author, price)

\* A model with a foreign key to itself: a category and its parent.
CategoryRecord(id, name, parent) ==
    PyModel("Category",
        <<<<"id", PyInt(id)>>, <<"name", PyStr(name)>>, <<"parent", parent>>,
          <<"parent_id", IF parent = PyNone THEN PyNone ELSE DictGet(parent.kv, "id", PyNone)>>>>)

CategoryRoot == CategoryRecord("4", "Root", PyNone)
CategoryChild == CategoryRecord("5", "Child", CategoryRoot)

Books ==
    {Book(title, author, price) :
        title \in {"Dune", ""}, author \in {PyNone, AuthorAnn},
        price \in {PyNone, PyDecimal("9.99")}}

\* What serialize is called on.
Sources ==
    Books \cup {AuthorAnn, CategoryChild, PyNone, PyStr("text"),
                PyListOf(<<Book("Dune", AuthorAnn, PyDecimal("9.99")), AuthorAnn>>),
                PyManager("testapp.Author.objects", <<AuthorAnn>>),
                PyDict(<<<<"author", AuthorAnn>>>>)}

\* The keyword arguments serialize is called with.
OptionSets ==
    {Options(fields, include, exclude, fixup) :
        fields \in {<<>>, <<Name("title")>>, <<Name("name"), Name("id"), Name("name")>>},
        include \in {<<>>, <<Name("author")>>, <<Name("missing")>>,
                     <<Computed("label")>>, <<Computed("title")>>,
                     <<Nested("author", <<"name">>)>>,
                     <<Nested("editions", <<"year">>)>>,
                     <<Nested("parent", <<"name">>)>>,
                     <<Nested("parent", <<"name", "parent">>)>>,
                     <<NotADescription>>},
        exclude \in {<<>>, <<"price">>, <<"author">>},
        fixup \in {"", "author", "parent"}}

-----------------------------------------------------------------------------
(* Endpoint.dispatch, step by step *)

VARIABLES
    settings_DEBUG,   \* settings.DEBUG
    self,             \* the endpoint class serving the request
    request,          \* the request object, with the attributes dispatch adds
    session,          \* the user auth.login put in the session, "" if none
    pc,               \* where dispatch is
    exc,              \* the exception raised inside the try block, NoExc if none
    response,         \* the local variable response
    returned,         \* what dispatch gave back to the framework
    auth_response,    \* what self.authenticate(request) did, if it was called
    handler_ran,      \* whether the body of the method handler was entered
    handler_result,   \* what the body of the method handler did
    log,              \* the steps taken, in order
    call,             \* the call of serialize: module, src and keyword arguments
    serialized,       \* what the call of serialize gave back
    view,             \* the ListEndpoint, DetailEndpoint or ActionEndpoint subclass serving
    store,            \* the rows of the model's table
    exchange,         \* the request view is serving, and what became of it
    pager,            \* the PaginatorMixin instance: model, paginate_by and pages
    paged             \* the last call of page on it: page_num, pages before, outcome

serializer == <<call, serialized>>

storage == <<view, store, exchange>>

paging == <<pager, paged>>

vars == <<settings_DEBUG, self, request, session, pc, exc, response, returned,
          auth_response, handler_ran, handler_result, log, call, serialized,
          view, store, exchange, pager, paged>>

\* A call of serialize, and none.
Call(module, src, opts) == [module |-> module, src |-> src, opts |-> opts]
NoCall == Call("", PyNone, NoOptions)
NotSerialized == Raised("", "")

Pending == [kind |-> "pending", response |-> NoResponse, exc |-> NoExc]
DispatchReturned(r) == [kind |-> "returned", response |-> r, exc |-> NoExc]
DispatchRaised(e) == [kind |-> "raised", response |-> NoResponse, exc |-> e]

NotCalled == [kind |-> "not_called", response |-> NoResponse]
HandlerOutcome(result, exception) == [result |-> result, exc |-> exception]
NotRun == HandlerOutcome(NoResult, NoExc)

\* A model endpoint class: the class it extends and its class attributes
\* (model "" for None, extra_fields None or a list), and whether it defines action.
View(cls, model, methods, lookup_field, extra_fields, action) ==
    [cls |-> cls, model |-> model, methods |-> methods, lookup_field |-> lookup_field,
     extra_fields |-> extra_fields, action |-> action]
NoView == View("", "", {}, "", PyNone, FALSE)

\* A request served by a model endpoint: the request, the keyword arguments
\* of the URL, the rows before it, what dispatch gave back, the steps the
\* handler took and the calls of self.action it made.
Exchange(req, kwargs, before, outcome, steps, calls) ==
    [request |-> req, kwargs |-> kwargs, before |-> before, outcome |-> outcome,
     steps |-> steps, calls |-> calls]
NoExchange ==
    Exchange(NewRequest("", "", [body |-> "", POST |-> <<>>], <<>>, NoHeader, AnonymousUser),
             <<>>, {}, Pending, <<>>, <<>>)

\* self.pages of a PaginatorMixin instance: no such attribute (the mixin
\* defines none), None (a subclass defines it so), or the Paginator over
\* self.model.objects.all() with per_page records a page.
NoAttribute == [kind |-> "unset", per_page |-> 0]
NonePages == [kind |-> "None", per_page |-> 0]
Paginator(per_page) == [kind |-> "Paginator", per_page |-> per_page]

\* A PaginatorMixin instance, and a call of page on it.
Pager(model, paginate_by, pages) ==
    [model |-> model, paginate_by |-> paginate_by, pages |-> pages]
NoPager == Pager("", 0, NoAttribute)
Paged(page_num, before, outcome) ==
    [page_num |-> page_num, before |-> before, outcome |-> outcome]
NotPaged == Paged(0, NoAttribute, Raised("", ""))

\* No paginator is in use.
NoPaging ==
    /\ pager = NoPager
    /\ paged = NotPaged

\* No model endpoint has served a request.
NoStorage ==
    /\ view = NoView
    /\ store = {}
    /\ exchange = NoExchange

Init ==
    /\ settings_DEBUG \in BOOLEAN
    /\ self \in Endpoints
    /\ request \in Requests(self)
    /\ session = ""
    /\ pc = "dispatch"
    /\ exc = NoExc
    /\ response = NoResult
    /\ returned = Pending
    /\ auth_response = NotCalled
    /\ handler_ran = FALSE
    /\ handler_result = NotRun
    /\ log = <<>>
    /\ call = NoCall
    /\ serialized = NotSerialized
    /\ NoStorage
    /\ NoPaging

\* dispatch, up to the try block: the attributes added to the request, and
\* the page parameter.
DispatchEnter ==
    /\ pc = "dispatch"
    /\ LET params == DictOf(Items(request.GET))
           page == DictGet(params, "page", Absent)
           bad_page == DictHas(params, "page") /\ ~IsInt(page)
       IN  /\ request' = [request EXCEPT
                            !.params = params, !.data = PyNone,
                            !.raw_data = request.body,
                            !.page = IF DictHas(params, "page") /\ IsInt(page)
                                     THEN IntOf(page) ELSE 0]
           /\ returned' =
                IF bad_page
                THEN DispatchReturned(Http400(
                        page \o " is not a valid page number. Please only use an integer value only."))
                ELSE returned
           /\ pc' = IF bad_page THEN "done" ELSE "parse_body"
    /\ UNCHANGED <<storage, paging, serializer, settings_DEBUG, self, session, exc, response, auth_response,
                   handler_ran, handler_result, log>>

\* self._parse_body(request)
DispatchParseBody ==
    /\ pc = "parse_body"
    /\ LET step == ParseBody(request)
       IN  /\ request' = step.request
           /\ exc' = step.exc
           /\ pc' = IF step.exc = NoExc THEN "authenticate" ELSE "except"
    /\ log' = Append(log, "parse_body")
    /\ UNCHANGED <<storage, paging, serializer, settings_DEBUG, self, session, response, returned, auth_response,
                   handler_ran, handler_result>>

\* Mutant: no TypeError for a value that is neither a response nor None.
ProcessAuthenticate_NoTypeCheck(a) ==
    CASE a.kind = "raised" -> [next |-> "raise", exc |-> a.exc]
      [] a.kind = "response" /\ IsHttpResponse(a.response) ->
            [next |-> "return", exc |-> NoExc]
      [] OTHER -> [next |-> "handler", exc |-> NoExc]

\* _process_authenticate, given what self.authenticate(request) did, and the
\* "if authentication_required: return" of dispatch: go on to the handler,
\* return the response, or raise.
ProcessAuthenticate(a) ==
    CASE a.kind \in {"not_called", "None"} -> [next |-> "handler", exc |-> NoExc]
      [] a.kind = "raised" -> [next |-> "raise", exc |-> a.exc]
      [] a.kind = "response" /\ IsHttpResponse(a.response) ->
            [next |-> "return", exc |-> NoExc]
      [] OTHER ->
            [next |-> "raise",
             exc |-> Exc("TypeError",
                         "authenticate method must return HttpResponse instance or None")]

\* self._process_authenticate(request), and the return that follows it
DispatchAuthenticate ==
    /\ pc = "authenticate"
    /\ \E a \in (IF IsAuthMixin(self) THEN Authenticate(self, request, session)
                 ELSE {AuthResult("not_called", NoResponse, NoExc, request, session)}) :
        /\ request' = a.request
        /\ session' = a.session
        /\ auth_response' = [kind |-> a.kind, response |-> a.response]
        /\ log' = IF a.kind = "not_called" THEN log ELSE Append(log, "authenticate")
        /\ exc' = ProcessAuthenticate(a).exc
        /\ returned' = IF ProcessAuthenticate(a).next = "return"
                       THEN DispatchReturned(a.response) ELSE returned
        /\ pc' = CASE ProcessAuthenticate(a).next = "handler" -> "handler"
                   [] ProcessAuthenticate(a).next = "return" -> "done"
                   [] OTHER -> "except"
    /\ UNCHANGED <<storage, paging, serializer, settings_DEBUG, self, response, handler_ran, handler_result>>

\* super().dispatch(request): the framework picks the method handler, the
\* login_required wrapper guards it, the body runs.
DispatchHandler ==
    /\ pc = "handler"
    /\ \E o \in (CASE ~HasHandler(self, request) ->
                        {HandlerOutcome(ResponseResult(HttpResponseNotAllowed), NoExc)}
                   [] HasHandler(self, request) /\ self.guarded /\ ~LoginAllowed(request) ->
                        {HandlerOutcome(ResponseResult(Http403("forbidden")), NoExc)}
                   [] OTHER ->
                        {HandlerOutcome(r, NoExc) : r \in HandlerReturns}
                        \cup {HandlerOutcome(NoResult, e) : e \in HandlerRaises}) :
        /\ handler_ran' = (HasHandler(self, request)
                            /\ (self.guarded => LoginAllowed(request)))
        /\ handler_result' = IF handler_ran' THEN o ELSE NotRun
        /\ response' = o.result
        /\ exc' = o.exc
        /\ pc' = IF o.exc = NoExc THEN "normalize" ELSE "except"
    /\ log' = Append(log, "handler")
    /\ UNCHANGED <<storage, paging, serializer, settings_DEBUG, self, request, session, returned, auth_response>>

\* traceback.format_exc()
FormatExc(e) == "Traceback (most recent call last): " \o e.cls \o ": " \o e.text

\* Mutant: the 500 response is built whatever settings.DEBUG is.
Except_IgnoresDebug(e, debug) ==
    CASE e.cls = "HttpError" -> ResponseResult(e.response)
      [] OTHER -> ResponseResult(Http500(e.text, <<<<"traceback", FormatExc(e)>>>>))

\* The except clauses of dispatch: the response the exception becomes, or
\* NoResult when it is raised again.
Except(e, debug) ==
    CASE e.cls = "HttpError" -> ResponseResult(e.response)
      [] e.cls # "HttpError" /\ debug ->
            ResponseResult(Http500(e.text, <<<<"traceback", FormatExc(e)>>>>))
      [] OTHER -> NoResult

DispatchExcept ==
    /\ pc = "except"
    /\ IF Except(exc, settings_DEBUG) # NoResult
       THEN /\ response' = Except(exc, settings_DEBUG)
            /\ pc' = "normalize"
            /\ UNCHANGED returned
       ELSE /\ returned' = DispatchRaised(exc)
            /\ pc' = "done"
            /\ UNCHANGED response
    /\ UNCHANGED <<storage, paging, serializer, settings_DEBUG, self, request, session, exc, auth_response,
                   handler_ran, handler_result, log>>

\* Mutant: a StreamingHttpResponse is not taken for a response.
Normalize_HttpResponseOnly(result) ==
    CASE result.kind = "response" /\ result.response.base = "HttpResponse" ->
            DispatchReturned(result.response)
      [] OTHER -> DispatchReturned(Http200(result.val))

\* The end of dispatch: a response is returned as it is, anything else
\* inside an Http200, whose constructor raises on what json.dumps cannot encode.
Normalize(result) ==
    CASE result.kind = "response"
            /\ result.response.base \in {"HttpResponse", "StreamingHttpResponse"} ->
            DispatchReturned(result.response)
      [] result.kind # "response" /\ JsonSerializable(result.val) ->
            DispatchReturned(Http200(result.val))
      [] OTHER ->
            DispatchRaised(Exc("TypeError",
                "Object of type " \o result.val.t \o " is not JSON serializable"))

DispatchNormalize ==
    /\ pc = "normalize"
    /\ returned' = Normalize(response)
    /\ pc' = "done"
    /\ log' = Append(log, "normalize")
    /\ UNCHANGED <<storage, paging, serializer, settings_DEBUG, self, request, session, exc, response,
                   auth_response, handler_ran, handler_result>>

Next ==
    \/ DispatchEnter
    \/ DispatchParseBody
    \/ DispatchAuthenticate
    \/ DispatchHandler
    \/ DispatchExcept
    \/ DispatchNormalize

Spec == Init /\ [][Next]_vars

-----------------------------------------------------------------------------
(* Calls of serialize *)

\* Endpoint.dispatch is not being followed step by step.
Idle ==
    /\ self = EndpointClass("Endpoint", "none", FALSE, {})
    /\ request = NewRequest("GET", "", [body |-> "", POST |-> <<>>], <<>>,
                            NoHeader, AnonymousUser)
    /\ session = ""
    /\ pc = "idle"
    /\ exc = NoExc
    /\ response = NoResult
    /\ returned = Pending
    /\ auth_response = NotCalled
    /\ handler_ran = FALSE
    /\ handler_result = NotRun
    /\ log = <<>>

\* No request is being served.
NoDispatch ==
    /\ settings_DEBUG = FALSE
    /\ Idle

dispatcher == <<settings_DEBUG, self, request, session, pc, exc, response, returned,
                auth_response, handler_ran, handler_result, log>>

SerializeInit ==
    /\ NoDispatch
    /\ NoStorage
    /\ NoPaging
    /\ call \in {Call("", src, opts) : src \in Sources, opts \in OptionSets}
    /\ serialized = NotSerialized

\* restless.models.serialize(src, **opts)
ModelsSerialize ==
    /\ call.module = ""
    /\ call' = [call EXCEPT !.module = "models"]
    /\ serialized' = Serialize("models", call.src, call.opts)
    /\ UNCHANGED dispatcher
    /\ UNCHANGED storage
    /\ UNCHANGED paging

\* restless.json.serialize(src, **opts)
JsonSerialize ==
    /\ call.module = ""
    /\ call' = [call EXCEPT !.module = "json"]
    /\ serialized' = Serialize("json", call.src, call.opts)
    /\ UNCHANGED dispatcher
    /\ UNCHANGED storage
    /\ UNCHANGED paging

SerializeNext ==
    \/ ModelsSerialize
    \/ JsonSerialize

SpecSerialize == SerializeInit /\ [][SerializeNext]_vars

-----------------------------------------------------------------------------
(* The model endpoints: the table, the ORM and the model form               *)
(*                                                                         *)
(* The model served is Book.  Its primary key is id; isbn is unique, as a  *)
(* lookup key is; isbn and title are required by the model form, author,   *)
(* price and published are optional.                                       *)

MaxId == 3          \* the largest primary key of a row
MaxKey == 2         \* the largest lookup value a URL carries

\* A row of the table.
Row(id, isbn, title) == BookRecord(ToString(id), ToString(isbn), title, PyNone, PyNone)

\* getattr(obj, name) and setattr(obj, name, value) on a model instance.
Attr(obj, name) == DictGet(obj.kv, name, PyNone)
SetAttr(obj, name, value) == [obj EXCEPT !.kv = DictSet(obj.kv, name, value)]

\* The primary key of a row, as a number.
Pk(row) == CHOOSE n \in 1..(MaxId + 1) : ToString(n) = Attr(row, "id").s

\* self.model._meta.fields
MetaFields(model) == LocalFields(PyModel(model, <<>>))

\* The column a lookup or an update names: pk is the primary key, a field is
\* known by its name and by its attname.  "" when the model has no such field.
Column(model, name) ==
    LET fields == MetaFields(model)
    IN  CASE name = "pk" -> "id"
          [] \E i \in 1..Len(fields) : name \in {fields[i].name, fields[i].attname} ->
                fields[CHOOSE i \in 1..Len(fields) :
                            name \in {fields[i].name, fields[i].attname}].attname
          [] OTHER -> ""

\* The value a column holds for what was submitted: a number for id, isbn and
\* author_id, the text otherwise.
ToColumn(column, value) ==
    IF column \in {"id", "isbn", "author_id"} /\ value.t = "str" /\ IsDigits(value.s)
    THEN PyInt(value.s)
    ELSE value

\* model.objects.filter(**{field: value})
Filter(rows, model, field, value) ==
    {r \in rows : Attr(r, Column(model, field)) = PyInt(ToString(value))}

\* model.objects.get(**{field: value})
Get(rows, model, field, value) ==
    CASE Filter(rows, model, field, value) = {} ->
            Raised("DoesNotExist", "Book matching query does not exist.")
      [] Cardinality(Filter(rows, model, field, value)) > 1 ->
            Raised("MultipleObjectsReturned", "get() returned more than one Book")
      [] OTHER -> Returned(CHOOSE r \in Filter(rows, model, field, value) : TRUE)

\* model.objects.all(), in the order of the primary key.
RECURSIVE InOrder(_)
InOrder(rows) ==
    IF rows = {} THEN <<>>
    ELSE LET first == CHOOSE r \in rows : \A o \in rows : Pk(r) <= Pk(o)
         IN  <<first>> \o InOrder(rows \ {first})

QuerySet(rows) == PyManager("testapp.Book.objects", InOrder(rows))

\* The unique constraint on isbn.
UniqueIsbn(rows) ==
    \A a, b \in rows : Attr(a, "isbn") = Attr(b, "isbn") => a = b

\* What a statement does to the table: the rows after it and no error, or
\* the rows as they were and the error.
Written(rows) == [rows |-> rows, error |-> Returned(PyNone)]
Refused(rows, cls, msg) == [rows |-> rows, error |-> Raised(cls, msg)]

\* obj.save() of an instance read from the table: the row with its primary
\* key is updated, and inserted when there is none.
Save(rows, obj) ==
    LET after == {r \in rows : Attr(r, "id") # Attr(obj, "id")} \cup {obj}
    IN  IF UniqueIsbn(after) THEN Written(after)
        ELSE Refused(rows, "IntegrityError", "UNIQUE constraint failed: testapp_book.isbn")

\* The primary key an insert gives.
NextId(rows) ==
    IF rows = {} THEN 1
    ELSE 1 + (CHOOSE n \in 1..MaxId : \E r \in rows : Pk(r) = n /\ \A o \in rows : Pk(o) <= n)

\* Model.delete()
Delete(rows, obj) == {r \in rows : Attr(r, "id") # Attr(obj, "id")}

\* setattr for every item of values, in order.
RECURSIVE SetAttrs(_, _)
SetAttrs(obj, values) ==
    IF values = <<>> THEN obj
    ELSE SetAttrs(SetAttr(obj, values[1][1], values[1][2]), Tail(values))

\* The items of values as column values of the model.
AsColumns(model, values) ==
    [i \in 1..Len(values) |->
        <<Column(model, values[i][1]),
          ToColumn(Column(model, values[i][1]), values[i][2])>>]

\* queryset.update(**values) on the rows selected.
Update(rows, model, selected, values) ==
    LET unknown == {i \in 1..Len(values) : Column(model, values[i][1]) = ""}
        after == (rows \ selected)
                    \cup {SetAttrs(r, AsColumns(model, values)) : r \in selected}
    IN  CASE unknown # {} ->
                Refused(rows, "FieldDoesNotExist",
                        "Book has no field named '"
                            \o values[CHOOSE i \in unknown : \A j \in unknown : i <= j][1]
                            \o "'")
          [] unknown = {} /\ ~UniqueIsbn(after) ->
                Refused(rows, "IntegrityError", "UNIQUE constraint failed: testapp_book.isbn")
          [] OTHER -> Written(after)

\* bool(value)
Truthy(value) ==
    CASE value.t = "NoneType" -> FALSE
      [] value.t \in {"str", "bytes"} -> value.s # ""
      [] value.t \in {"dict", "list"} -> value.kv # <<>> \/ value.s \notin {"", "[]", "{}"}
      [] OTHER -> TRUE

\* The authors a Book may name.
AuthorPks == {"1"}

\* The errors of one field of the model form, given the data submitted.
FieldErrors(name, data, instance, rows) ==
    LET given == DictHas(data.kv, name) /\ DictGet(data.kv, name, "") # ""
        value == DictGet(data.kv, name, "")
    IN  CASE name \in {"isbn", "title"} /\ ~given -> <<"This field is required.">>
          [] name = "isbn" /\ given /\ ~IsDigits(value) -> <<"Enter a whole number.">>
          [] name = "isbn" /\ given /\ IsDigits(value)
                /\ \E r \in rows : /\ Attr(r, "isbn") = PyInt(value)
                                   /\ (instance = PyNone \/ Attr(r, "id") # Attr(instance, "id")) ->
                <<"Book with this Isbn already exists.">>
          [] name = "author" /\ given /\ value \notin AuthorPks ->
                <<"Select a valid choice. That choice is not one of the available choices.">>
          [] OTHER -> <<>>

\* The fields of the model form made by modelform_factory(model, fields='__all__').
FormFields == <<"isbn", "title", "author", "price", "published">>

\* form.errors: an unbound form has none; a bound form has the errors of
\* each field that has some.
RECURSIVE FormErrorsOf(_, _, _, _)
FormErrorsOf(names, data, instance, rows) ==
    IF names = <<>> THEN <<>>
    ELSE (IF FieldErrors(names[1], data, instance, rows) = <<>> THEN <<>>
          ELSE <<<<names[1],
                   PyListOf([i \in 1..Len(FieldErrors(names[1], data, instance, rows)) |->
                                PyStr(FieldErrors(names[1], data, instance, rows)[i])])>>>>)
         \o FormErrorsOf(Tail(names), data, instance, rows)

\* form_cls(request.data or None, request.FILES, instance=instance): whether
\* the form is bound, and what is_valid() and errors give.  Data that is not
\* a mapping makes is_valid() raise.
Form(data, instance, rows) ==
    CASE ~Truthy(data) ->
            [bound |-> FALSE, raised |-> NoExc, errors |-> PyDict(<<>>)]
      [] Truthy(data) /\ data.t # "dict" ->
            [bound |-> TRUE,
             raised |-> Exc("AttributeError",
                            "'" \o data.t \o "' object has no attribute 'get'"),
             errors |-> PyDict(<<>>)]
      [] OTHER ->
            [bound |-> TRUE, raised |-> NoExc,
             errors |-> PyDict(FormErrorsOf(FormFields, data, instance, rows))]

IsValid(form) == form.bound /\ form.raised = NoExc /\ form.errors.kv = <<>>

\* form.save(commit=False): the instance with every field of the form set
\* from the cleaned data, a field left out set to None.
Construct(instance, data) ==
    LET cleaned(name) == IF DictHas(data.kv, name) /\ DictGet(data.kv, name, "") # ""
                         THEN PyStr(DictGet(data.kv, name, ""))
                         ELSE PyNone
        author == IF cleaned("author") = PyNone THEN PyNone ELSE AuthorAnn
    IN  SetAttrs(instance,
            <<<<"isbn", ToColumn("isbn", cleaned("isbn"))>>,
              <<"title", cleaned("title")>>,
              <<"author", author>>,
              <<"author_id", IF author = PyNone THEN PyNone ELSE Attr(author, "id")>>,
              <<"price", cleaned("price")>>,
              <<"published", cleaned("published")>>>>)

\* An instance of the model not yet in the table.
NewInstance == BookRecord("", "", "", PyNone, PyNone)

-----------------------------------------------------------------------------
(* restless/views.py: ListEndpoint, DetailEndpoint and ActionEndpoint *)

\* What a handler did: the rows it left, what it returned or raised, the
\* steps it took (lookup, validate, save, delete, action, serialize) and the
\* calls of self.action it made.
Did(rows, result, exception, steps, calls) ==
    [rows |-> rows, result |-> result, exc |-> exception, steps |-> steps, calls |-> calls]

\* HttpError(code, reason, errors=form.errors)
HttpErrorErrors(code, reason, errors) ==
    [cls |-> "HttpError", text |-> reason,
     response |-> JSONResponse("JSONErrorResponse", code,
                    WithJsonText(PyDict(<<<<"error", PyStr(reason)>>, <<"errors", errors>>>>)))]

MethodNotAllowed == HttpError(405, "Method Not Allowed", <<>>)
ResourceNotFound == HttpError(404, "Resource Not Found", <<>>)

\* The exception a failed call raised.
ExcOf(raised) == Exc(raised.cls, raised.msg)

\* self.serialize(objs): restless.models.serialize with fields=self.fields
\* and include=self.extra_fields.
ViewSerialize(v, src) ==
    Serialize("models", src,
              IF v.extra_fields = PyNone THEN IncludeNone(NoOptions) ELSE NoOptions)

\* _get_form(self.form, self.model), no form being set.
GetForm(v) ==
    IF v.model # "" THEN Returned(PyStr(v.model \o "Form"))
    ELSE Raised("NotImplementedError", "Form or Model class not specified")

\* The end of a handler, data being self.serialize(...): the value is
\* returned as it is, or in Http200 or Http201.
Serialized(rows, data, steps, wrapper) ==
    IF ~data.ok
    THEN Did(rows, NoResult, ExcOf(data), steps, <<>>)
    ELSE Did(rows,
             CASE wrapper = "Http200" -> ResponseResult(Http200(WithJsonText(data.val)))
               [] wrapper = "Http201" -> ResponseResult(Http201(WithJsonText(data.val)))
               [] OTHER -> ValueResult(WithJsonText(data.val)),
             NoExc, steps, <<>>)

\* A handler after obj = form.save() or the update of the queryset, written
\* being what the write did: self.serialize(obj) follows.
Saved(v, rows, written, obj, steps, wrapper) ==
    IF ~written.error.ok
    THEN Did(rows, NoResult, ExcOf(written.error), steps \o <<"save">>, <<>>)
    ELSE Serialized(written.rows, ViewSerialize(v, obj),
                    steps \o <<"save", "serialize">>, wrapper)

\* A handler from form.is_valid() on: obj is what form.save() writes.
Validated(v, rows, form, obj, steps, reason, wrapper) ==
    IF form.raised # NoExc
    THEN Did(rows, NoResult, form.raised, steps \o <<"validate">>, <<>>)
    ELSE IF ~IsValid(form)
    THEN Did(rows, NoResult, HttpErrorErrors(400, reason, form.errors),
             steps \o <<"validate">>, <<>>)
    ELSE Saved(v, rows, Save(rows, obj), obj, steps \o <<"validate">>, wrapper)

\* ListEndpoint.get, get_query_set included.
ListGet(v, rows, req, kwargs) ==
    IF "GET" \notin v.methods
    THEN Did(rows, NoResult, MethodNotAllowed, <<>>, <<>>)
    ELSE IF v.model = ""
    THEN Did(rows, NoResult, ResourceNotFound, <<"lookup">>, <<>>)
    ELSE Serialized(rows, ViewSerialize(v, QuerySet(rows)), <<"lookup", "serialize">>, "")

\* ListEndpoint.post
ListPost(v, rows, req, kwargs) ==
    IF "POST" \notin v.methods
    THEN Did(rows, NoResult, MethodNotAllowed, <<>>, <<>>)
    ELSE IF ~GetForm(v).ok
    THEN Did(rows, NoResult, ExcOf(GetForm(v)), <<>>, <<>>)
    ELSE Validated(v, rows, Form(req.data, PyNone, rows),
                   SetAttr(Construct(NewInstance, req.data), "id",
                           PyInt(ToString(NextId(rows)))),
                   <<>>, "Invalid Data", "Http201")

\* DetailEndpoint.get_instance: the instance, or the exception raised.
Found(instance, exception) == [instance |-> instance, exc |-> exception]

GetInstance(v, rows, kwargs) ==
    IF v.model # "" /\ DictHas(kwargs, v.lookup_field)
    THEN LET got == Get(rows, v.model, v.lookup_field, DictGet(kwargs, v.lookup_field, 0))
         IN  IF got.ok THEN Found(got.val, NoExc)
             ELSE IF got.cls = "DoesNotExist" THEN Found(PyNone, ResourceNotFound)
             ELSE Found(PyNone, ExcOf(got))
    ELSE Found(PyNone, ResourceNotFound)

\* DetailEndpoint.get_instance_as_queryset: the rows selected (None when the
\* method falls off its end), or the exception raised.
Selected(rows, is_None, exception) == [rows |-> rows, is_None |-> is_None, exc |-> exception]

GetInstanceAsQueryset(v, rows, kwargs) ==
    IF v.model # "" /\ DictHas(kwargs, v.lookup_field)
    THEN LET result == Filter(rows, v.model, v.lookup_field,
                              DictGet(kwargs, v.lookup_field, 0))
         IN  IF Cardinality(result) = 0 THEN Selected({}, FALSE, ResourceNotFound)
             ELSE IF Cardinality(result) # 1
             THEN Selected({}, FALSE,
                           Exc("AssertionError",
                               "ModelBase: " \o v.lookup_field \o ":"
                                    \o ToString(DictGet(kwargs, v.lookup_field, 0))))
             ELSE Selected(result, FALSE, NoExc)
    ELSE Selected({}, TRUE, NoExc)

\* DetailEndpoint.get from the instance on.
GetFound(v, rows, found) ==
    IF found.exc # NoExc
    THEN Did(rows, NoResult, found.exc, <<"lookup">>, <<>>)
    ELSE Serialized(rows, ViewSerialize(v, found.instance), <<"lookup", "serialize">>, "")

\* Mutant: get does not look at self.methods.
DetailGet_AnyMethod(v, rows, req, kwargs) ==
    GetFound(v, rows, GetInstance(v, rows, kwargs))

\* DetailEndpoint.get
DetailGet(v, rows, req, kwargs) ==
    IF "GET" \notin v.methods
    THEN Did(rows, NoResult, MethodNotAllowed, <<>>, <<>>)
    ELSE GetFound(v, rows, GetInstance(v, rows, kwargs))

\* DetailEndpoint.get_fields_names and get_foreign_keys, for a model that is set.
GetFieldsNames(v) == {MetaFields(v.model)[i].name : i \in 1..Len(MetaFields(v.model))}
GetForeignKeys(v) ==
    SelectSeq([i \in 1..Len(MetaFields(v.model)) |-> MetaFields(v.model)[i]],
              LAMBDA f : f.attname = f.name \o "_id")

\* re.sub('_id$', '', key) for a key that ends with _id, the key otherwise.
CleanKey(key) == IF EndsWith(key, "_id") THEN SubSeq(key, 1, Len(key) - 3) ELSE key

\* The items of request.data that patch keeps.
PatchValues(v, data) ==
    LET kept == SelectSeq(data.kv,
                    LAMBDA item : item[1] \in GetFieldsNames(v)
                                    \/ CleanKey(item[1]) \in GetFieldsNames(v))
    IN  [i \in 1..Len(kept) |-> <<kept[i][1], PyStr(kept[i][2])>>]

\* setattr(instance, key, value) of patch: a relation takes an instance of
\* the related model and nothing else.
SetAttrRaises(v, values) ==
    LET relations == {GetForeignKeys(v)[i].name : i \in 1..Len(GetForeignKeys(v))}
        bad == {i \in 1..Len(values) : values[i][1] \in relations}
    IN  IF bad = {} THEN NoExc
        ELSE LET i == CHOOSE i \in bad : \A j \in bad : i <= j
             IN  Exc("ValueError",
                     "Cannot assign \"'" \o values[i][2].s \o "'\": \"Book." \o values[i][1]
                        \o "\" must be a \"Author\" instance.")

\* DetailEndpoint.patch from the loop over the items on: the instance is
\* given the values, the queryset is updated with them.
PatchFound(v, rows, queryset, values, found) ==
    IF found.exc # NoExc
    THEN Did(rows, NoResult, found.exc, <<"lookup">>, <<>>)
    ELSE IF SetAttrRaises(v, values) # NoExc
    THEN Did(rows, NoResult, SetAttrRaises(v, values), <<"lookup">>, <<>>)
    ELSE Saved(v, rows, Update(rows, v.model, queryset.rows, values),
               SetAttrs(found.instance, values), <<"lookup">>, "Http200")

\* DetailEndpoint.patch from the queryset on.
PatchSelected(v, rows, req, kwargs, queryset) ==
    IF queryset.exc # NoExc
    THEN Did(rows, NoResult, queryset.exc, <<"lookup">>, <<>>)
    ELSE IF v.model = ""
    THEN Did(rows, NoResult,
             Exc("AttributeError", "'NoneType' object has no attribute '_meta'"),
             <<"lookup">>, <<>>)
    ELSE IF req.data.t # "dict"
    THEN Did(rows, NoResult,
             Exc("AttributeError",
                 "'" \o req.data.t \o "' object has no attribute 'items'"),
             <<"lookup">>, <<>>)
    ELSE PatchFound(v, rows, queryset, PatchValues(v, req.data),
                    GetInstance(v, rows, kwargs))

\* DetailEndpoint.patch
DetailPatch(v, rows, req, kwargs) ==
    IF "PATCH" \notin v.methods
    THEN Did(rows, NoResult, MethodNotAllowed, <<>>, <<>>)
    ELSE PatchSelected(v, rows, req, kwargs, GetInstanceAsQueryset(v, rows, kwargs))

\* The loop of put over the foreign keys: request.data[fk] =
\* request.data.pop(fk + '_id'), which moves the value to the end of the dict.
RECURSIVE RenameForeignKeys(_, _)
RenameForeignKeys(kv, fks) ==
    IF fks = <<>> THEN kv
    ELSE RenameForeignKeys(
            IF DictHas(kv, fks[1].name \o "_id")
            THEN DictSet(DictDel(kv, fks[1].name \o "_id"), fks[1].name,
                         DictGet(kv, fks[1].name \o "_id", ""))
            ELSE kv,
            Tail(fks))

\* id_field in request.data: what the test raises for data of this type.
ContainsRaises(data) ==
    CASE data.t = "bytes" -> Exc("TypeError", "a bytes-like object is required, not 'str'")
      [] data.t = "NoneType" -> Exc("TypeError", "argument of type 'NoneType' is not iterable")
      [] OTHER -> NoExc

\* DetailEndpoint.put from the instance on: request_data is request.data
\* after the loop over the foreign keys, obj.pk is set to the key.
PutFound(v, rows, kwargs, request_data, found) ==
    IF found.exc # NoExc
    THEN Did(rows, NoResult, found.exc, <<"lookup">>, <<>>)
    ELSE Validated(v, rows, Form(request_data, found.instance, rows),
                   SetAttr(Construct(found.instance, request_data), "id",
                           IF DictHas(kwargs, v.lookup_field)
                           THEN PyInt(ToString(DictGet(kwargs, v.lookup_field, 0)))
                           ELSE PyNone),
                   <<"lookup">>, "Invalid data", "Http200")

\* DetailEndpoint.put
DetailPut(v, rows, req, kwargs) ==
    IF "PUT" \notin v.methods
    THEN Did(rows, NoResult, MethodNotAllowed, <<>>, <<>>)
    ELSE IF v.model = ""
    THEN Did(rows, NoResult,
             Exc("AttributeError", "'NoneType' object has no attribute '_meta'"),
             <<>>, <<>>)
    ELSE IF ContainsRaises(req.data) # NoExc
    THEN Did(rows, NoResult, ContainsRaises(req.data), <<>>, <<>>)
    ELSE PutFound(v, rows, kwargs,
                  IF req.data.t = "dict"
                  THEN [req.data EXCEPT !.kv = RenameForeignKeys(@, GetForeignKeys(v))]
                  ELSE req.data,
                  GetInstance(v, rows, kwargs))

\* Mutant: delete removes every row of the model.
DetailDelete_AllRows(v, rows, req, kwargs) ==
    LET found == GetInstance(v, rows, kwargs)
    IN  IF "DELETE" \notin v.methods
        THEN Did(rows, NoResult, MethodNotAllowed, <<>>, <<>>)
        ELSE IF found.exc # NoExc
        THEN Did(rows, NoResult, found.exc, <<"lookup">>, <<>>)
        ELSE Did({}, ValueResult(PyDict(<<>>)), NoExc, <<"lookup", "delete">>, <<>>)

\* DetailEndpoint.delete
DetailDelete(v, rows, req, kwargs) ==
    LET found == GetInstance(v, rows, kwargs)
    IN  IF "DELETE" \notin v.methods
        THEN Did(rows, NoResult, MethodNotAllowed, <<>>, <<>>)
        ELSE IF found.exc # NoExc
        THEN Did(rows, NoResult, found.exc, <<"lookup">>, <<>>)
        ELSE Did(Delete(rows, found.instance), ValueResult(PyDict(<<>>)), NoExc,
                 <<"lookup", "delete">>, <<>>)

\* A call of self.action(request, obj).
ActionCall(req, obj) == [request |-> req, obj |-> obj]

\* self.action: the one of ActionEndpoint raises; the one a subclass
\* defines is the one of PublisherAction.
Action(v, req, obj) ==
    IF v.action THEN HandlerOutcome(ValueResult(PyDict(<<<<"result", "done">>>>)), NoExc)
    ELSE HandlerOutcome(NoResult, MethodNotAllowed)

\* Mutant: the action is called before the record is looked up, with None.
ActionPost_ActionFirst(v, rows, req, kwargs) ==
    LET found == GetInstance(v, rows, kwargs)
    IN  IF "POST" \notin v.methods
        THEN Did(rows, NoResult, MethodNotAllowed, <<>>, <<>>)
        ELSE IF Action(v, req, PyNone).exc # NoExc
        THEN Did(rows, NoResult, Action(v, req, PyNone).exc,
                 <<"action">>, <<ActionCall(req, PyNone)>>)
        ELSE IF found.exc # NoExc
        THEN Did(rows, NoResult, found.exc, <<"action", "lookup">>, <<ActionCall(req, PyNone)>>)
        ELSE Did(rows, Action(v, req, PyNone).result, NoExc,
                 <<"action", "lookup">>, <<ActionCall(req, PyNone)>>)

\* ActionEndpoint.post
ActionPost(v, rows, req, kwargs) ==
    LET found == GetInstance(v, rows, kwargs)
    IN  IF "POST" \notin v.methods
        THEN Did(rows, NoResult, MethodNotAllowed, <<>>, <<>>)
        ELSE IF found.exc # NoExc
        THEN Did(rows, NoResult, found.exc, <<"lookup">>, <<>>)
        ELSE Did(rows, Action(v, req, found.instance).result,
                 Action(v, req, found.instance).exc,
                 <<"lookup", "action">>, <<ActionCall(req, found.instance)>>)

\* View.http_method_not_allowed of the framework: the class has no handler.
NotAllowed(v, rows, req, kwargs) ==
    Did(rows, ResponseResult(HttpResponseNotAllowed), NoExc, <<>>, <<>>)

\* The methods a class has a handler for.
HandlersOf(cls) ==
    CASE cls = "ListEndpoint" -> {"GET", "POST"}
      [] cls = "DetailEndpoint" -> {"GET", "PUT", "PATCH", "DELETE"}
      [] cls = "ActionEndpoint" -> {"GET", "POST", "PUT", "PATCH", "DELETE"}

\* The handler the framework picks for the method.
Handle(v, rows, req, kwargs) ==
    CASE req.method \notin HandlersOf(v.cls) -> NotAllowed(v, rows, req, kwargs)
      [] v.cls = "ListEndpoint" /\ req.method = "GET" -> ListGet(v, rows, req, kwargs)
      [] v.cls = "ListEndpoint" /\ req.method = "POST" -> ListPost(v, rows, req, kwargs)
      [] v.cls = "ActionEndpoint" /\ req.method = "POST" -> ActionPost(v, rows, req, kwargs)
      [] v.cls # "ListEndpoint" /\ req.method = "GET" -> DetailGet(v, rows, req, kwargs)
      [] v.cls # "ListEndpoint" /\ req.method = "PATCH" -> DetailPatch(v, rows, req, kwargs)
      [] v.cls # "ListEndpoint" /\ req.method = "PUT" -> DetailPut(v, rows, req, kwargs)
      [] v.cls # "ListEndpoint" /\ req.method = "DELETE" -> DetailDelete(v, rows, req, kwargs)

\* The handler runs when the body was parsed.
Handled(v, rows, parsed, kwargs) ==
    IF parsed.exc # NoExc
    THEN Did(rows, NoResult, parsed.exc, <<>>, <<>>)
    ELSE Handle(v, rows, parsed.request, kwargs)

\* The except clauses of dispatch, and the result made a response.
Outcome(did, debug) ==
    IF did.exc = NoExc THEN Normalize(did.result)
    ELSE IF Except(did.exc, debug) # NoResult
    THEN Normalize(Except(did.exc, debug))
    ELSE DispatchRaised(did.exc)

\* What dispatch leaves: the rows, and the exchange with its outcome.
Dispatched(rows, req, kwargs, did, debug) ==
    [rows |-> did.rows,
     exchange |-> Exchange(req, kwargs, rows, Outcome(did, debug), did.steps, did.calls)]

\* Endpoint.dispatch around the handler: the body is parsed, the handler
\* runs, an exception goes through the except clauses, the result is made a
\* response.
Dispatch(v, rows, req, kwargs, debug) ==
    Dispatched(rows, ParseBody(req).request, kwargs,
               Handled(v, rows, ParseBody(req), kwargs), debug)

-----------------------------------------------------------------------------
(* Requests to the model endpoints *)

\* self.extra_fields: None as the classes leave it, or a list.
ExtraFields == {PyNone, PyListOf(<<>>)}

\* The subclasses drawn: with and without a model, with the methods of the
\* class and with fewer; a DetailEndpoint looks a row up by pk or by isbn,
\* an ActionEndpoint by pk.
Views ==
    {View("ListEndpoint", model, methods, "", extra_fields, FALSE) :
        model \in {"Book", ""}, methods \in {{"GET", "POST"}, {"GET"}},
        extra_fields \in ExtraFields}
    \cup {View("DetailEndpoint", model, methods, lookup_field, extra_fields, FALSE) :
            model \in {"Book", ""}, methods \in {{"GET", "PUT", "PATCH", "DELETE"}, {"GET"}},
            lookup_field \in {"pk", "isbn"}, extra_fields \in ExtraFields}
    \cup {View("ActionEndpoint", model, methods, "pk", PyNone, action) :
            model \in {"Book", ""}, methods \in {{"POST"}, {"GET"}}, action \in BOOLEAN}

\* The content type and body of a request that has a body.
Bodies ==
    {<<"application/json", body>> :
        body \in {BodyEmptyObject, BodyTitle, BodyBook, BodyAuthorId, BodyAuthor,
                  BodyTitleId, BodyUnknown, BodyBadJson, BodyList}}
    \cup {<<"text/plain", BodyTitle>>}

\* The requests of a method.
ModelRequests(method) ==
    {NewRequest(method, b[1], [body |-> b[2], POST |-> <<>>], <<>>, NoHeader, AnonymousUser) :
        b \in IF method \in {"POST", "PUT", "PATCH"} THEN Bodies
              ELSE {<<"", "">>}}

\* The keyword arguments the URL pattern gives the view: none, or the lookup
\* value under the name of the lookup field.
Kwargs(v) ==
    IF v.cls = "ListEndpoint" THEN {<<>>}
    ELSE {<<>>} \cup {<<<<v.lookup_field, n>>>> : n \in 1..MaxKey}

\* The tables at the start.
Stores ==
    {rows \in SUBSET {Row(id, isbn, "Old") : id \in 1..2, isbn \in 1..2} :
        /\ UniqueIsbn(rows)
        /\ \A a, b \in rows : Attr(a, "id") = Attr(b, "id") => a = b}

\* settings.DEBUG is off: what it changes, the body of a 500 response, is
\* explored by Spec.
StoreInit ==
    /\ settings_DEBUG = FALSE
    /\ Idle
    /\ call = NoCall
    /\ serialized = NotSerialized
    /\ view \in Views
    /\ store \in Stores
    /\ exchange = NoExchange
    /\ NoPaging

\* The view serves the request: nothing is served while the response to
\* another is on its way.
Serve(req, kwargs) ==
    /\ exchange = NoExchange
    /\ \E d \in {Dispatch(view, store, req, kwargs, settings_DEBUG)} :
        /\ store' = d.rows
        /\ exchange' = d.exchange
    /\ UNCHANGED <<view, dispatcher, serializer, paging>>

ListEndpoint_get ==
    /\ view.cls = "ListEndpoint"
    /\ \E req \in ModelRequests("GET") : Serve(req, <<>>)

ListEndpoint_post ==
    /\ view.cls = "ListEndpoint"
    /\ NextId(store) <= MaxId
    /\ \E req \in ModelRequests("POST") : Serve(req, <<>>)

DetailEndpoint_get ==
    /\ view.cls \in {"DetailEndpoint", "ActionEndpoint"}
    /\ \E req \in ModelRequests("GET"), kwargs \in Kwargs(view) : Serve(req, kwargs)

DetailEndpoint_patch ==
    /\ view.cls \in {"DetailEndpoint", "ActionEndpoint"}
    /\ \E req \in ModelRequests("PATCH"), kwargs \in Kwargs(view) : Serve(req, kwargs)

DetailEndpoint_put ==
    /\ view.cls \in {"DetailEndpoint", "ActionEndpoint"}
    /\ \E req \in ModelRequests("PUT"), kwargs \in Kwargs(view) : Serve(req, kwargs)

DetailEndpoint_delete ==
    /\ view.cls \in {"DetailEndpoint", "ActionEndpoint"}
    /\ \E req \in ModelRequests("DELETE"), kwargs \in Kwargs(view) : Serve(req, kwargs)

ActionEndpoint_post ==
    /\ view.cls = "ActionEndpoint"
    /\ \E req \in ModelRequests("POST"), kwargs \in Kwargs(view) : Serve(req, kwargs)

\* A method the class has no handler for.
View_http_method_not_allowed ==
    \E method \in {"GET", "POST", "PUT", "PATCH", "DELETE"} \ HandlersOf(view.cls) :
        \E req \in ModelRequests(method), kwargs \in Kwargs(view) : Serve(req, kwargs)

\* The framework sends what dispatch gave back; the next request gets a
\* view instance of its own.
Respond ==
    /\ exchange # NoExchange
    /\ exchange' = NoExchange
    /\ UNCHANGED <<view, store, dispatcher, serializer, paging>>

StoreNext ==
    \/ ListEndpoint_get
    \/ ListEndpoint_post
    \/ DetailEndpoint_get
    \/ DetailEndpoint_patch
    \/ DetailEndpoint_put
    \/ DetailEndpoint_delete
    \/ ActionEndpoint_post
    \/ View_http_method_not_allowed
    \/ Respond

SpecStore == StoreInit /\ [][StoreNext]_vars

-----------------------------------------------------------------------------
(* restless/views.py: PaginatorMixin (restless/utils.py holds the same code) *)

MaxPerPage == 2     \* the largest paginate_by drawn
MaxPageNum == 3     \* the largest page number page is called with

PyTrue == PyVal("bool", "True", <<>>)

\* PaginatorMixin._check_for_model
CheckForModel(p) ==
    IF p.model = ""
    THEN Raised("ImproperlyConfigured", "You must specify a model to use the paginator")
    ELSE Returned(PyTrue)

\* What _check_for_pages leaves: the instance, and what it returned or raised.
Checked(p, result) == [pager |-> p, result |-> result]

\* PaginatorMixin._check_for_pages: self.pages is read first; a Paginator is
\* true, and the method then falls off its end and returns None.
CheckForPages(p) ==
    IF p.pages.kind = "unset"
    THEN Checked(p, Raised("AttributeError",
                           "'PaginatorMixin' object has no attribute 'pages'"))
    ELSE IF p.pages.kind = "Paginator"
    THEN Checked(p, Returned(PyNone))
    ELSE IF ~CheckForModel(p).ok
    THEN Checked(p, CheckForModel(p))
    ELSE Checked([p EXCEPT !.pages = Paginator(p.paginate_by)], Returned(PyTrue))

\* Paginator.num_pages: an empty list has one page.
NumPages(count, per_page) ==
    IF count = 0 THEN 1 ELSE (count + per_page - 1) \div per_page

\* Paginator.page(number).object_list for a number in 1..num_pages.
ObjectList(objects, per_page, number) ==
    SubSeq(objects, (number - 1) * per_page + 1,
           IF number * per_page < Len(objects) THEN number * per_page ELSE Len(objects))

\* The two tests of page on page_num, for an int.
ClampPage(page_num, num_pages) ==
    IF page_num < 1 THEN (IF 1 > num_pages THEN num_pages ELSE 1)
    ELSE IF page_num > num_pages THEN num_pages
    ELSE page_num

\* PaginatorMixin.page after _check_for_pages: an exception goes on, a
\* result that is not true skips the if and page returns None.
PageChecked(checked, rows, page_num) ==
    IF ~checked.result.ok
    THEN [pager |-> checked.pager, outcome |-> checked.result]
    ELSE IF ~Truthy(checked.result.val)
    THEN [pager |-> checked.pager, outcome |-> Returned(PyNone)]
    ELSE [pager |-> checked.pager,
          outcome |-> Returned(PyListOf(
                ObjectList(InOrder(rows), checked.pager.pages.per_page,
                           ClampPage(page_num,
                                     NumPages(Cardinality(rows),
                                              checked.pager.pages.per_page)))))]

\* PaginatorMixin.page(page_num), page_num an int.
Page(p, rows, page_num) == PageChecked(CheckForPages(p), rows, page_num)

\* The instances drawn: with and without a model, with no pages attribute
\* and with pages = None, over the tables of Stores.
PageInit ==
    /\ NoDispatch
    /\ call = NoCall
    /\ serialized = NotSerialized
    /\ view = NoView
    /\ exchange = NoExchange
    /\ store \in Stores
    /\ pager \in {Pager(model, paginate_by, pages) :
                    model \in {"Book", ""}, paginate_by \in 1..MaxPerPage,
                    pages \in {NoAttribute, NonePages}}
    /\ paged = NotPaged

PaginatorMixin_page ==
    \E page_num \in (0 - 1)..MaxPageNum :
        \E d \in {Page(pager, store, page_num)} :
            /\ pager' = d.pager
            /\ paged' = Paged(page_num, pager.pages, d.outcome)
            /\ UNCHANGED <<storage, dispatcher, serializer>>

PageNext == PaginatorMixin_page

SpecPage == PageInit /\ [][PageNext]_vars

-----------------------------------------------------------------------------
(* What the claims speak of *)

Range(seq) == {seq[i] : i \in 1..Len(seq)}


\* The step was taken, and the earlier of two steps.
Took(step) == step \in Range(log)
Before(a, b) ==
    \E i, j \in 1..Len(log) : i < j /\ log[i] = a /\ log[j] = b

\* An endpoint with one of the two authentication mixins whose handlers are
\* wrapped in login_required.
AuthProtected(cls) == cls.auth \in {"userpass", "basic"} /\ cls.guarded

\* The Authorization header is "Basic" and the base64 of name:password of an
\* active user.
BasicUser(req) ==
    {u \in Users :
        /\ u.is_active
        /\ req.authorization # NoHeader
        /\ Len(SplitWs(req.authorization)) = 2
        /\ Lower(SplitWs(req.authorization)[1]) = "basic"
        /\ B64Decode(SplitWs(req.authorization)[2])
                = Returned(PyBytes(u.name \o ":" \o u.password))}

\* The username and password of an active user are in the body data of a
\* POST, in the query parameters of any other request.
PostedOrQueried(req) ==
    IF req.method = "POST"
    THEN (IF req.data.t = "dict" THEN req.data.kv ELSE <<>>)
    ELSE DictOf(Items(req.GET))

UsernamePasswordUser(req) ==
    {u \in Users :
        /\ u.is_active
        /\ DictGet(PostedOrQueried(req), "username", Absent) = u.name
        /\ DictGet(PostedOrQueried(req), "password", Absent) = u.password}

CredentialsUser(cls, req) ==
    IF cls.auth = "basic" THEN BasicUser(req) ELSE UsernamePasswordUser(req)

\* authenticate(request) was called.
Authenticated == auth_response.kind # "not_called"

HasHeader(resp, name) == \E i \in 1..Len(resp.hdrs) : resp.hdrs[i][1] = name

-----------------------------------------------------------------------------
(* C1 *)

\* C1: on an endpoint with UsernamePasswordAuthMixin or BasicHttpAuthMixin
\* whose handlers are login_required, a request without the credentials of an
\* active user is answered 401 or 403 and the handler body is not entered.
\* Stated for the requests authentication is run on: one turned away before
\* that, for its page parameter or its body, is answered 400.
C1_UnauthenticatedIsRefused ==
    (/\ pc = "done"
     /\ AuthProtected(self)
     /\ Authenticated
     /\ CredentialsUser(self, request) = {})
    => (/\ returned.kind = "returned"
        /\ returned.response.status \in {401, 403}
        /\ ~handler_ran)

-----------------------------------------------------------------------------
(* C2 *)

StepOrder == <<"parse_body", "authenticate", "handler", "normalize">>
Rank(step) == CHOOSE i \in 1..Len(StepOrder) : StepOrder[i] = step

\* C2: the steps of one dispatch call are taken in the order parse body,
\* authenticate, handler, normalize, each at most once; authenticate is not
\* called unless body parsing came first and raised nothing; the handler is
\* not called unless body parsing came first and raised nothing and, on an
\* endpoint with an authentication mixin, authenticate came first and
\* returned None.
C2_StepOrder ==
    /\ \A i, j \in 1..Len(log) : i < j => Rank(log[i]) < Rank(log[j])
    /\ Took("authenticate") =>
            /\ Before("parse_body", "authenticate")
            /\ ParseBody(request).exc = NoExc
    /\ Took("handler") =>
            /\ Before("parse_body", "handler")
            /\ ParseBody(request).exc = NoExc
            /\ IsAuthMixin(self) =>
                    /\ Before("authenticate", "handler")
                    /\ auth_response.kind = "None"

\* C2 witness: a dispatch that took all four steps.
C2_Witness == pc = "done" /\ log = StepOrder

-----------------------------------------------------------------------------
(* C3 *)

-----------------------------------------------------------------------------
(* C4 *)

\* C4: when body parsing, authenticate or the handler raised an HttpError,
\* dispatch returns the response the error carries; when one of them raised
\* another exception, dispatch returns a 500 response with the exception's
\* text and a traceback if settings.DEBUG is set, and raises the same
\* exception, returning nothing, if it is not.
C4_ExceptionOutcome ==
    (pc = "done" /\ exc # NoExc) =>
        IF exc.cls = "HttpError"
        THEN returned = DispatchReturned(exc.response)
        ELSE IF settings_DEBUG
             THEN /\ returned.kind = "returned"
                  /\ returned.response.status = 500
                  /\ Contains(returned.response.body, exc.text)
                  /\ Contains(returned.response.body, "\"traceback\": \"Traceback")
             ELSE returned = DispatchRaised(exc)

\* C4 witness: an exception that is no HttpError, answered 500 under DEBUG.
C4_Witness ==
    /\ pc = "done"
    /\ exc.cls = "Exception"
    /\ settings_DEBUG
    /\ handler_ran
    /\ returned.response.status = 500

-----------------------------------------------------------------------------
(* C5 *)

BodyMethods == {"POST", "PUT", "PATCH"}

\* The media type a request declares: its content type up to the first ";".
MediaType(req) == SplitOnce(req.content_type, ";")[1]

\* The body read as JSON in the declared charset, utf-8 if none is declared.
DeclaredCharset(req) ==
    DictGet(ParseContentType(req.content_type).params, "charset", "utf-8")

BodyAsJson(req) ==
    IF Decode(req.body, DeclaredCharset(req)).ok
    THEN JsonLoads(Decode(req.body, DeclaredCharset(req)).val.s)
    ELSE Decode(req.body, DeclaredCharset(req))

MalformedJson(req) == MediaType(req) = "application/json" /\ ~BodyAsJson(req).ok

\* The page query parameter is absent or an integer.
PageAccepted(req) ==
    \A i \in 1..Len(req.GET) : req.GET[i][1] = "page" => IsInt(Items(req.GET)[i][2])

\* The request was answered 400 with the parser's message in the error text
\* and its handler was not called.
AnsweredInvalidJson ==
    /\ returned.kind = "returned"
    /\ returned.response.status = 400
    /\ Contains(returned.response.body, BodyAsJson(request).msg)
    /\ ~Took("handler") /\ ~handler_ran

\* C5 as stated: every request that declares application/json and whose body
\* cannot be decoded or is not JSON is answered 400 with the parser's message
\* and its handler is not called.
C5_MalformedJsonAnyRequest ==
    (pc = "done" /\ MalformedJson(request)) => AnsweredInvalidJson

\* C5 as amended: a POST, PUT or PATCH request whose page parameter is absent
\* or an integer, that declares application/json and whose body cannot be
\* decoded or is not JSON, is answered 400 with the parser's message and its
\* handler is not called.
C5_MalformedJsonIs400 ==
    (/\ pc = "done"
     /\ MalformedJson(request)
     /\ request.method \in BodyMethods
     /\ PageAccepted(request))
    => AnsweredInvalidJson

\* C5 witness: a PUT with an undecodable JSON body answered 400.
C5_Witness ==
    /\ pc = "done"
    /\ request.method = "PUT"
    /\ request.body = BodyLatin1
    /\ MalformedJson(request)
    /\ returned.response.status = 400
    /\ Contains(returned.response.body, "invalid JSON payload: 'utf-8' codec can't decode")

-----------------------------------------------------------------------------
(* C6 *)

\* The body of the handler ran and returned.
HandlerReturned == handler_ran /\ handler_result.exc = NoExc

\* dispatch never returns anything that is not a response.
ReturnsResponsesOnly ==
    returned.kind = "returned" =>
        returned.response.base \in {"HttpResponse", "StreamingHttpResponse"}

-----------------------------------------------------------------------------
(* C7 *)

\* request.data as C7 states it: decided by the media type, the parameters
\* of the content type playing no part.
DataByMediaType(media, body, POST) ==
    CASE media = "application/json" ->
            JsonLoads(Decode(body, "utf-8").val.s).val
      [] media \in {"application/x-www-form-urlencoded", "multipart/form-data"} ->
            PyDict([i \in 1..Len(POST) |-> <<POST[i][1], POST[i][2][Len(POST[i][2])]>>])
      [] OTHER -> PyBytes(body)

RawDataIsBody == pc # "dispatch" => request.raw_data = request.body

\* Body parsing has just returned for a request with a body.
BodyParsed == pc = "authenticate" /\ request.method \in BodyMethods

\* C7 as stated: request.data follows from the media type alone, JSON
\* decoded, form data as a flat mapping, anything else raw; raw_data is the
\* body.
C7_DataByMediaTypeAlone ==
    /\ RawDataIsBody
    /\ BodyParsed =>
            request.data = DataByMediaType(MediaType(request), request.body, request.POST)

\* data is a flat mapping: every submitted key once, with the last value
\* submitted for it.
FlatMappingOf(data, POST) ==
    /\ data.t = "dict"
    /\ Len(data.kv) = Cardinality(DictKeys(data.kv))
    /\ DictKeys(data.kv) = {POST[i][1] : i \in 1..Len(POST)}
    /\ \A i \in 1..Len(POST) :
            DictGet(data.kv, POST[i][1], Absent) = POST[i][2][Len(POST[i][2])]

\* C7 as amended: once body parsing has returned for a POST, PUT or PATCH,
\* request.data follows from the media type and, for application/json, the
\* charset parameter: application/json gives the JSON value of the body
\* decoded in the declared charset (utf-8 if none); application/
\* x-www-form-urlencoded and every media type that starts with
\* multipart/form-data give a flat mapping of request.POST with the last value
\* of each key; every other type gives the raw body.  raw_data is the body.
C7_DataByContentType ==
    /\ RawDataIsBody
    /\ BodyParsed =>
            CASE MediaType(request) = "application/json" ->
                    /\ BodyAsJson(request).ok
                    /\ request.data = BodyAsJson(request).val
              [] MediaType(request) = "application/x-www-form-urlencoded"
                    \/ StartsWith(MediaType(request), "multipart/form-data") ->
                    FlatMappingOf(request.data, request.POST)
              [] OTHER -> request.data = PyBytes(request.body)

\* C7 witness: a form POST with two values for one key.
C7_Witness ==
    /\ BodyParsed
    /\ MediaType(request) = "application/x-www-form-urlencoded"
    /\ request.POST = QueryDict(<<"mallory", "alice">>, <<"pw">>)
    /\ request.data = PyDict(<<<<"username", "alice">>, <<"password", "pw">>>>)

-----------------------------------------------------------------------------
(* C8 *)

\* C8: BasicHttpAuthMixin.authenticate never raises; it returns a 401
\* response with a WWW-Authenticate header unless the Authorization header
\* holds the credentials of an active user, and then it returns None, sets
\* request.user to that user and starts no session.
C8_BasicAuthenticate ==
    (self.auth = "basic" /\ Authenticated) =>
        IF BasicUser(request) = {}
        THEN /\ auth_response.kind = "response"
             /\ auth_response.response.status = 401
             /\ HasHeader(auth_response.response, "WWW-Authenticate")
        ELSE /\ auth_response.kind = "None"
             /\ request.user \in BasicUser(request)
             /\ session = ""

-----------------------------------------------------------------------------
(* C9 *)

\* C9: UsernamePasswordAuthMixin.authenticate reads username and password in
\* the body data of a POST and in the query parameters of any other request;
\* unless they are those of an active user (absent ones are not) it returns a
\* 401 response and no session is started; if they are, it logs the user in,
\* which starts the session, and returns None.
C9_UsernamePasswordAuthenticate ==
    (self.auth = "userpass" /\ Authenticated) =>
        IF UsernamePasswordUser(request) = {}
        THEN /\ auth_response.kind = "response"
             /\ auth_response.response.status = 401
             /\ session = ""
        ELSE /\ auth_response.kind = "None"
             /\ \E u \in UsernamePasswordUser(request) : session = u.name

-----------------------------------------------------------------------------
(* C10 *)

\* serialize was called on a record with no keyword argument.
DefaultSerialization ==
    call.module # "" /\ call.src.t = "Model" /\ call.opts = NoOptions

\* C10 as stated: serialize(record) with no fields, include, exclude or fixup
\* returns a mapping with one entry for every persisted field of the record
\* and no other, the entry holding the value the record has for the field.
C10_FieldValuesAsTheyAre ==
    DefaultSerialization =>
        /\ serialized.ok
        /\ serialized.val.t = "dict"
        /\ Len(serialized.val.kv) = Len(LocalFields(call.src))
        /\ \A i \in 1..Len(LocalFields(call.src)) :
            \E key \in {LocalFields(call.src)[i].name, LocalFields(call.src)[i].attname} :
                /\ DictHas(serialized.val.kv, key)
                /\ DictGet(serialized.val.kv, key, PyNone) = DictGet(call.src.kv, key, PyNone)

\* The key a field is serialized under: in restless.models the name of its
\* attribute, in restless.json its own name.
KeyOf(module, field) == IF module = "models" THEN field.attname ELSE field.name

\* A value as the serializers give it: None, numbers and str as they are,
\* everything else as the text str() gives.
AsPrimitive(value) ==
    IF value.t \in {"NoneType", "int", "float", "str"}
    THEN value
    ELSE PyStr(StrOf(value))

\* C10 as amended: serialize(record) with no fields, include, exclude or fixup
\* returns a mapping with one entry for every persisted field of the record
\* and no other.  restless.models keys the entry by the field's attribute
\* name (name_id for a foreign key) and restless.json by the field's name;
\* the entry holds the record's attribute of that name, as it is when it is
\* None, a number or a str and as its str() text otherwise (temporal values,
\* Decimal, a related record).
C10_DefaultSerialization ==
    DefaultSerialization =>
        /\ serialized.ok
        /\ serialized.val.t = "dict"
        /\ Len(serialized.val.kv) = Len(LocalFields(call.src))
        /\ \A i \in 1..Len(LocalFields(call.src)) :
            LET key == KeyOf(call.module, LocalFields(call.src)[i])
            IN  /\ serialized.val.kv[i][1] = key
                /\ serialized.val.kv[i][2] = AsPrimitive(DictGet(call.src.kv, key, PyNone))

\* C10 witness: restless.models serialized a book with an author and a price.
C10_Witness ==
    /\ DefaultSerialization
    /\ call.module = "models"
    /\ call.src = Book("Dune", AuthorAnn, PyDecimal("9.99"))
    /\ serialized.ok
    /\ DictGet(serialized.val.kv, "author_id", PyNone) = PyInt("1")
    /\ DictGet(serialized.val.kv, "price", PyNone) = PyStr("9.99")
    /\ ~DictHas(serialized.val.kv, "author")

-----------------------------------------------------------------------------
(* C11 *)

\* The key a description of the given name is serialized under.
KeyOfName(module, obj, name) ==
    IF module = "models" THEN FieldMapGet(obj, name) ELSE name

\* The attribute descriptions in include: its tuples and strings.
Included(opts) == SelectSeq(opts.include, LAMBDA d : d.tag # "other")

\* The default field list without the excluded names, and the included names.
DescribedNames(obj, opts) ==
    ({LocalFields(obj)[i].name : i \in 1..Len(LocalFields(obj))}
        \ Range(opts.exclude))
    \cup {Included(opts)[i].k : i \in 1..Len(Included(opts))}

\* The value a description stands for on a record.
DescribedValue(module, obj, d) ==
    CASE d.tag = "callable" -> CallFunction(d.k, obj)
      [] d.tag = "dict" ->
            Serialize(module, DictGet(obj.kv, d.k, PyNone),
                      Options([i \in 1..Len(d.fields) |-> Name(d.fields[i])],
                              <<>>, <<>>, "")).val
      [] OTHER -> AsPrimitive(DictGet(obj.kv, KeyOfName(module, obj, d.k), PyNone))

\* Every attribute the descriptions name is one the record has.
DescribedAttributesExist(module, obj, opts) ==
    \A i \in 1..Len(Included(opts)) :
        Included(opts)[i].tag \in {"str", "dict"} =>
            DictHas(obj.kv, KeyOfName(module, obj, Included(opts)[i].k))

\* serialize was called on a record with include or exclude, without fields
\* or fixup, all described attributes being there.
SerializedWithIncludeExclude ==
    /\ call.module # "" /\ call.src.t = "Model"
    /\ call.opts.fields = <<>> /\ call.opts.fixup = ""
    /\ (call.opts.include # <<>> \/ call.opts.exclude # <<>>)
    /\ DescribedAttributesExist(call.module, call.src, call.opts)

\* C11: serialized with include and exclude, a record gives a mapping whose
\* keys are those of the default fields that are not excluded and of the
\* included descriptions, and a name described more than once has the value
\* of its last description.  (Keys are taken as each module writes them:
\* the attribute name in restless.models, the field name in restless.json.)
C11_IncludeExclude ==
    SerializedWithIncludeExclude =>
        /\ serialized.ok
        /\ serialized.val.t = "dict"
        /\ DictKeys(serialized.val.kv) =
                {KeyOfName(call.module, call.src, n) :
                    n \in DescribedNames(call.src, call.opts)}
        /\ \A i \in 1..Len(FieldList(call.src, call.opts)) :
            LET d == FieldList(call.src, call.opts)[i]
                key == KeyOfName(call.module, call.src, d.k)
                last == \A j \in (i + 1)..Len(FieldList(call.src, call.opts)) :
                            KeyOfName(call.module, call.src,
                                      FieldList(call.src, call.opts)[j].k) # key
            IN  last => DictGet(serialized.val.kv, key, PyNone)
                            = DescribedValue(call.module, call.src, d)

-----------------------------------------------------------------------------
(* C12 *)

\* serialize was called on a record with a tuple among its descriptions.
SerializedWithTuples ==
    /\ call.module # "" /\ call.src.t = "Model"
    /\ call.opts.fixup = ""
    /\ \E i \in 1..Len(FieldList(call.src, call.opts)) :
            FieldList(call.src, call.opts)[i].tag \in {"callable", "dict"}
    /\ \A i \in 1..Len(FieldList(call.src, call.opts)) :
            FieldList(call.src, call.opts)[i].tag \in {"str", "dict"} =>
                DictHas(call.src.kv,
                        KeyOfName(call.module, call.src, FieldList(call.src, call.opts)[i].k))

\* C12: serialization with tuple descriptions completes without error; a
\* description (name, function) gives name the value of the function on the
\* record, a description (name, spec) the serialization under spec of the
\* record's attribute name: a mapping for a record, a list of mappings for a
\* collection.
C12_TupleDescriptions ==
    SerializedWithTuples =>
        /\ serialized.ok
        /\ \A i \in 1..Len(FieldList(call.src, call.opts)) :
            LET d == FieldList(call.src, call.opts)[i]
                related == DictGet(call.src.kv, d.k, PyNone)
                value == DictGet(serialized.val.kv, d.k, PyNone)
            IN  /\ d.tag = "callable" => value = CallFunction(d.k, call.src)
                /\ d.tag = "dict" =>
                    /\ value = DescribedValue(call.module, call.src, d)
                    /\ related.t = "Model" => value.t = "dict"
                    /\ related.t = "Manager" =>
                        /\ value.t = "list"
                        /\ Len(value.kv) = Len(related.kv)
                        /\ \A j \in 1..Len(value.kv) : value.kv[j][2].t = "dict"

-----------------------------------------------------------------------------
(* The model endpoints: what the claims speak of *)

\* The view has served a request of the method, whose response is on its way.
Served(classes, method) ==
    /\ exchange # NoExchange
    /\ view.cls \in classes
    /\ exchange.request.method = method

\* dispatch returned a response of the status.
Answered(status) ==
    /\ exchange.outcome.kind = "returned"
    /\ exchange.outcome.response.status = status

\* dispatch returned the JSON error response of a structured error.
AnsweredJsonError(status, reason) ==
    exchange.outcome =
        DispatchReturned(JSONErrorResponse("JSONErrorResponse", status, reason, <<>>))

\* The rows the lookup key of the URL located before the request was served.
Located ==
    IF view.model # "" /\ DictHas(exchange.kwargs, view.lookup_field)
    THEN {r \in exchange.before :
            Attr(r, IF view.lookup_field = "pk" THEN "id" ELSE view.lookup_field)
                = PyInt(ToString(DictGet(exchange.kwargs, view.lookup_field, 0)))}
    ELSE {}

\* The body was read as a mapping.
SubmittedMapping == exchange.request.data.t = "dict"

-----------------------------------------------------------------------------
(* C13 *)

\* The column a submitted key names: a schema field by its name, or a
\* relation by its name followed by _id; "" for any other key.
SchemaColumn(key) ==
    LET fields == LocalFields(PyModel(view.model, <<>>))
        named == {i \in 1..Len(fields) : fields[i].name = key}
        related == {i \in 1..Len(fields) :
                        fields[i].attname # fields[i].name /\ fields[i].attname = key}
    IN  IF named # {} THEN fields[CHOOSE i \in named : TRUE].attname
        ELSE IF related # {} THEN key
        ELSE ""

\* The row with the submitted schema fields set to the submitted values.
RECURSIVE Patched(_, _)
Patched(row, items) ==
    IF items = <<>> THEN row
    ELSE Patched(IF SchemaColumn(items[1][1]) = "" THEN row
                 ELSE SetAttr(row, SchemaColumn(items[1][1]),
                              ToColumn(SchemaColumn(items[1][1]), PyStr(items[1][2]))),
                 Tail(items))

PatchExpected ==
    (exchange.before \ Located)
        \cup {Patched(r, exchange.request.data.kv) : r \in Located}

\* A DetailEndpoint that allows PATCH served one for an existing record,
\* with a mapping whose values the table accepts.
PatchedExisting ==
    /\ Served({"DetailEndpoint"}, "PATCH")
    /\ "PATCH" \in view.methods
    /\ Located # {}
    /\ SubmittedMapping
    /\ UniqueIsbn(PatchExpected)

\* C13: a PATCH on an existing record ends without an error; afterwards the
\* record has the submitted values in the fields named by submitted keys
\* that are schema fields (a relation also by its name followed by _id),
\* every other field and every other record is as before, and submitted
\* keys that are no schema fields have no effect.
C13_PatchSubmittedSchemaFields ==
    PatchedExisting =>
        /\ Answered(200)
        /\ store = PatchExpected

-----------------------------------------------------------------------------
(* C14 *)

\* The data PUT validates: the mapping submitted, a relation submitted by
\* its name followed by _id taken under its name.
PutData ==
    [exchange.request.data EXCEPT
        !.kv = RenameForeignKeys(@, GetForeignKeys(view))]

\* A DetailEndpoint that allows PUT served one, with a mapping, for the one
\* record its lookup key located.
PutOnLocated ==
    /\ Served({"DetailEndpoint"}, "PUT")
    /\ "PUT" \in view.methods
    /\ Cardinality(Located) = 1
    /\ SubmittedMapping

\* The record located, and the same record holding the validated values.
PutRecord == CHOOSE r \in Located : TRUE
PutValidated == Construct(PutRecord, PutData)

PutPassesValidation == IsValid(Form(PutData, PutRecord, exchange.before))

\* C14: a PUT works on the record the lookup key located, whichever field
\* lookup_field names.  With data that passes validation, afterwards that
\* record holds the validated values, every other record is as before, no
\* record is added or removed, and the response is 200 with the record's
\* serialization; with data that fails validation the response is 400 with
\* the field errors and the table is unchanged.
C14_PutOnLocatedRecord ==
    PutOnLocated =>
        IF PutPassesValidation
        THEN /\ store = (exchange.before \ Located) \cup {PutValidated}
             /\ exchange.outcome =
                    DispatchReturned(Http200(WithJsonText(
                        Serialize("models", PutValidated, NoOptions).val)))
        ELSE /\ store = exchange.before
             /\ Answered(400)
             /\ exchange.outcome.response =
                    HttpErrorErrors(400, "Invalid data",
                        Form(PutData, PutRecord, exchange.before).errors).response

-----------------------------------------------------------------------------
(* C15 *)

\* A ListEndpoint with a model that allows POST served one, with a mapping
\* (an empty one for an empty body).
PostedMapping ==
    /\ Served({"ListEndpoint"}, "POST")
    /\ "POST" \in view.methods
    /\ view.model # ""
    /\ SubmittedMapping

PostPassesValidation == IsValid(Form(exchange.request.data, PyNone, exchange.before))

\* The records the request added.
Created == store \ exchange.before

\* C15: a POST with data that passes validation adds exactly one record,
\* holding the validated values, changes no other, and is answered 201 with
\* the serialization of the new record; a POST with data that fails
\* validation, an empty body included, is answered 400 with the field errors
\* and leaves the table as it was.
C15_PostCreatesOrRefuses ==
    PostedMapping =>
        IF PostPassesValidation
        THEN /\ exchange.before \subseteq store
             /\ Cardinality(Created) = 1
             /\ \A r \in Created :
                    /\ SetAttr(r, "id", Attr(NewInstance, "id"))
                            = Construct(NewInstance, exchange.request.data)
                    /\ exchange.outcome =
                            DispatchReturned(Http201(WithJsonText(
                                Serialize("models", r, NoOptions).val)))
        ELSE /\ store = exchange.before
             /\ Answered(400)
             /\ exchange.outcome.response =
                    HttpErrorErrors(400, "Invalid Data",
                        Form(exchange.request.data, PyNone, exchange.before).errors).response

-----------------------------------------------------------------------------
(* C16 *)

\* A ListEndpoint with a model and extra_fields left unset served a GET.
ListedByDefault ==
    /\ Served({"ListEndpoint"}, "GET")
    /\ "GET" \in view.methods
    /\ view.model # ""
    /\ view.extra_fields = PyNone

\* The default serialization of every stored record, in the order of the
\* primary key.
DefaultList ==
    PyListOf([i \in 1..Cardinality(exchange.before) |->
                Serialize("models", InOrder(exchange.before)[i], NoOptions).val])

\* C16: a GET on a ListEndpoint with a model and the default configuration is
\* answered 200 with the list of the default serializations of the stored
\* records, one entry per record, whatever the table holds; the table is
\* unchanged.
C16_ListGetDefault ==
    ListedByDefault =>
        /\ exchange.outcome = DispatchReturned(Http200(WithJsonText(DefaultList)))
        /\ store = exchange.before

-----------------------------------------------------------------------------
(* C17 *)

\* A DetailEndpoint that allows DELETE served one for an existing record.
DeletedExisting ==
    /\ Served({"DetailEndpoint"}, "DELETE")
    /\ "DELETE" \in view.methods
    /\ Located # {}

\* A DetailEndpoint that allows GET served one for a key no record has.
GotAbsent ==
    /\ Served({"DetailEndpoint"}, "GET")
    /\ "GET" \in view.methods
    /\ view.model # ""
    /\ DictHas(exchange.kwargs, view.lookup_field)
    /\ Located = {}

\* C17: a DELETE on an existing record removes that one record, leaves every
\* other record as it was and is answered 200 with the body {}; and whenever
\* no record has a key - after the DELETE, until a record with the key is
\* created again - a GET for the key is answered 404.
C17_DeleteRemovesTheRecord ==
    /\ DeletedExisting =>
            /\ Cardinality(Located) = 1
            /\ store = exchange.before \ Located
            /\ exchange.outcome = DispatchReturned(Http200(PyDict(<<>>)))
            /\ exchange.outcome.response.body = "{}"
    /\ GotAbsent =>
            /\ AnsweredJsonError(404, "Resource Not Found")
            /\ store = exchange.before

\* A record was deleted from a table of two, the other is still there.
C17_Witness ==
    /\ DeletedExisting
    /\ Answered(200)
    /\ Cardinality(exchange.before) = 2
    /\ Cardinality(store) = 1

-----------------------------------------------------------------------------
(* C18 *)

\* Endpoint.dispatch read the body and went on to the handler.
HandlerEntered == ParseBody(exchange.request).exc = NoExc

\* A DetailEndpoint served a GET, PUT, PATCH or DELETE it allows, or an
\* ActionEndpoint a POST it allows, and no record could be located: none
\* matches, the URL has no lookup key, or there is no model.
ServedWithoutRecord ==
    /\ \/ \E m \in {"GET", "PUT", "PATCH", "DELETE"} : Served({"DetailEndpoint"}, m)
       \/ Served({"ActionEndpoint"}, "POST")
    /\ exchange.request.method \in view.methods
    /\ HandlerEntered
    /\ Located = {}

\* C18: a request to a DetailEndpoint (or a POST to an ActionEndpoint) for
\* which no record can be located is answered 404 with a JSON error body,
\* the response of a structured error, and leaves the table unchanged.
C18_NotFoundIs404 ==
    ServedWithoutRecord =>
        /\ AnsweredJsonError(404, "Resource Not Found")
        /\ store = exchange.before

-----------------------------------------------------------------------------
(* C19 *)

\* An ActionEndpoint that allows POST served one, the handler entered.
ActionPosted ==
    /\ Served({"ActionEndpoint"}, "POST")
    /\ "POST" \in view.methods
    /\ HandlerEntered

-----------------------------------------------------------------------------
(* C20 *)

\* A model endpoint served a request whose method is not in self.methods.
ServedDisallowed ==
    /\ exchange # NoExchange
    /\ view.cls \in {"ListEndpoint", "DetailEndpoint", "ActionEndpoint"}
    /\ exchange.request.method \in {"GET", "POST", "PUT", "PATCH", "DELETE"}
    /\ exchange.request.method \notin view.methods

\* The answer is the JSON error 405, nothing was looked up, validated or
\* called, and the table is unchanged.
RefusedAs405 ==
    /\ AnsweredJsonError(405, "Method Not Allowed")
    /\ exchange.steps = <<>>
    /\ exchange.calls = <<>>
    /\ store = exchange.before

\* C20 as stated: every request whose method is not in the methods list of
\* the endpoint is answered with the JSON error 405 'Method Not Allowed',
\* before any lookup, validation or action call, the table unchanged.
C20_DisallowedMethodIs405 == ServedDisallowed => RefusedAs405

\* C20: a request whose method is not in the methods list, for which the
\* class defines a handler, and whose body dispatch could read, is answered
\* with the JSON error 405 'Method Not Allowed', before any lookup,
\* validation or action call, the table unchanged; so are GET, PUT, PATCH
\* and DELETE on an ActionEndpoint with the default methods list.
C20_DisallowedHandlerIs405 ==
    (/\ ServedDisallowed
     /\ exchange.request.method \in HandlersOf(view.cls)
     /\ HandlerEntered) => RefusedAs405

\* An ActionEndpoint with the default methods list refused a GET for an
\* existing record.
C20_Witness ==
    /\ ServedDisallowed
    /\ view.cls = "ActionEndpoint"
    /\ view.methods = {"POST"}
    /\ exchange.request.method = "GET"
    /\ Located # {}
    /\ AnsweredJsonError(405, "Method Not Allowed")

-----------------------------------------------------------------------------
(* C21 *)

\* The codes and the extra key/value pairs HttpError is raised with.
ErrorCodes == {400, 403, 404, 405, 409}
ErrorExtras ==
    {<<>>, <<<<"extra_data", "foo">>>>, <<<<"error", "taken">>, <<"holder", "ann">>>>}

\* dispatch is over and what was raised inside it is HttpError(code, reason,
\* **extra), reason being the text the exception carries.
RaisedHttpError(code, extra) ==
    /\ pc = "done"
    /\ exc = HttpError(code, exc.text, extra)

\* dispatch returned a JSON response of this status whose object has "error"
\* mapped to reason, then the extra pairs, and nothing else.
AnsweredError(code, reason, extra) ==
    /\ returned.kind = "returned"
    /\ returned.response.status = code
    /\ returned.response.ctype = "application/json; charset=utf-8"
    /\ returned.response.body
            = "{" \o DumpItems(<<<<"error", reason>>>> \o extra) \o "}"

\* C21 as stated: for every HttpError(code, reason, **extra) raised during a
\* request, dispatch returns a response of status code, of content type
\* application/json; charset=utf-8, whose JSON object maps "error" to reason
\* and holds exactly the extra pairs besides.
C21_HttpErrorAnyExtra ==
    \A code \in ErrorCodes, extra \in ErrorExtras :
        RaisedHttpError(code, extra) => AnsweredError(code, exc.text, extra)

\* C21 amended: the same for extra pairs none of which is named "error"; an
\* extra pair named "error" takes the place of the reason in the object, the
\* status and the content type being as stated.
C21_HttpErrorResponse ==
    \A code \in ErrorCodes, extra \in ErrorExtras :
        RaisedHttpError(code, extra) =>
            IF ~DictHas(extra, "error")
            THEN AnsweredError(code, exc.text, extra)
            ELSE /\ returned.kind = "returned"
                 /\ returned.response.status = code
                 /\ returned.response.ctype = "application/json; charset=utf-8"
                 /\ returned.response.body = "{" \o DumpItems(extra) \o "}"

\* C21 witness: the handler raised HttpError(400, 'raised error',
\* extra_data='foo') and dispatch returned its response.
C21_Witness ==
    /\ RaisedHttpError(400, <<<<"extra_data", "foo">>>>)
    /\ handler_ran
    /\ exc.text = "raised error"
    /\ AnsweredError(400, "raised error", <<<<"extra_data", "foo">>>>)

-----------------------------------------------------------------------------
(* C22 *)

\* The object list of page min(max(n, 1), num_pages) of the rows, per_page
\* rows a page.
PageOfRecords(rows, per_page, n) ==
    LET objects == InOrder(rows)
        num_pages == IF objects = <<>> THEN 1
                     ELSE CHOOSE k \in 1..Len(objects) :
                            /\ k * per_page >= Len(objects)
                            /\ (k - 1) * per_page < Len(objects)
        number == CHOOSE k \in 1..num_pages :
                    \/ k = n
                    \/ n < 1 /\ k = 1
                    \/ n > num_pages /\ k = num_pages
        first == (number - 1) * per_page + 1
        last == IF number * per_page < Len(objects) THEN number * per_page
                ELSE Len(objects)
    IN  [i \in 1..(last - first + 1) |-> objects[first + i - 1]]

\* page was called on an instance whose model is configured.
PageCalled ==
    /\ paged # NotPaged
    /\ pager.model # ""

\* C22: page(n) on an instance with a model returns the object list of page
\* min(max(n, 1), num_pages) of the model's records, on the first call and on
\* every later call on the same instance.
C22_PageReturnsThePage ==
    PageCalled =>
        paged.outcome
            = Returned(PyListOf(PageOfRecords(store, pager.paginate_by, paged.page_num)))

-----------------------------------------------------------------------------
(* C23 *)

\* What serialize collects for the record of the call before the fixup.
Collected == Serialize(call.module, call.src, [call.opts EXCEPT !.fixup = ""])

\* The sub-mapping the collected mapping holds under attname.
SubMapping == DictGet(Collected.val.kv, call.opts.fixup, PyNone)

\* serialize was called on a record with fixup=flatten(attname), and the
\* mapping collected for the record holds a mapping under attname.
FlattenedSubMapping ==
    /\ call.module # "" /\ call.src.t = "Model"
    /\ call.opts.fixup # ""
    /\ Collected.ok
    /\ DictHas(Collected.val.kv, call.opts.fixup)
    /\ SubMapping.t = "dict"

\* The result has no entry under attname and every other top-level entry
\* the sub-mapping does not name as it was collected.
FlattenedOthersKept ==
    /\ serialized.ok
    /\ serialized.val.t = "dict"
    /\ ~DictHas(serialized.val.kv, call.opts.fixup)
    /\ \A i \in 1..Len(Collected.val.kv) :
            (/\ Collected.val.kv[i][1] # call.opts.fixup
             /\ ~DictHas(SubMapping.kv, Collected.val.kv[i][1])) =>
                /\ DictHas(serialized.val.kv, Collected.val.kv[i][1])
                /\ DictGet(serialized.val.kv, Collected.val.kv[i][1], PyNone)
                        = Collected.val.kv[i][2]

====
